---- MODULE Spec2Model ----
(***************************************************************************)
(* Model of the change-detection engine of midas-watchtower                *)
(* (src/change_detector.py): the snapshot store with its URL identity      *)
(* resolution, the field differencer, the stealth heuristics and the       *)
(* detect-and-persist facade.                                              *)
(*                                                                         *)
(* Three specifications share the variables:                               *)
(*   Spec      the store driven by detect_metadata_changes calls           *)
(*   SpecDiff  the differencer and the stealth heuristics applied to       *)
(*             bounded (current, previous, settings) inputs                *)
(*   SpecNorm  _normalize_url / _generate_url_variants applied to URLs     *)
(***************************************************************************)
EXTENDS Integers, Sequences, FiniteSets, TLC

VARIABLES
    history,    \* ChangeDetector.history['metadata_history']: key -> snapshot
    order,      \* insertion order of the keys of metadata_history (dict order)
    calls,      \* number of detect_metadata_changes calls made so far
    last,       \* observation of the latest detect_metadata_changes call
    tracked,    \* normalized URLs for which some call has stored a snapshot
    settings,   \* thresholds read by ChangeDetector.__init__
    cur,        \* SpecDiff: the current UrlMetadata
    prev,       \* SpecDiff: the previous (serialized) snapshot
    out,        \* SpecDiff: result of the operation applied
    nurl,       \* SpecNorm: the URL given to _normalize_url
    nout,       \* SpecNorm: result of the operation applied
    file,       \* the history file: existence and text
    top,        \* ChangeDetector.history: the top-level value held in memory
    res,        \* outcome of the latest ChangeDetector method call
    sched,      \* UrlScheduler: the check interval and the schedule of each URL
    now,        \* the clock read by datetime.now()
    svc,        \* the executor thread: position and state of the monitoring cycle
    hnd         \* the event-loop thread: the POST /api/setup-watches handler

vars == <<history, order, calls, last, tracked, settings, cur, prev, out, nurl, nout,
          file, top, res, sched, now, svc, hnd>>

\* the variables of the file life cycle
fileVars == <<file, top, res>>

\* the variables of the monitoring service
svcVars == <<sched, now, svc, hnd>>

(***************************************************************************)
(* Optional values: Python None is the empty tuple, a value x is <<x>>.    *)
(***************************************************************************)
None == <<>>
Some(x) == <<x>>

\* dict.get(key, default) on a mapping modelled as a function
Get(d, k, default) == IF k \in DOMAIN d THEN d[k] ELSE default

EmptyDict == [x \in {} |-> x]

(***************************************************************************)
(* Bounds of the model.                                                    *)
(***************************************************************************)
MaxCalls == 2       \* detect_metadata_changes calls in one behaviour
MaxSlashes == 2     \* trailing slashes on a path of the URL domain
MaxTime == 3        \* the latest reading of the clock
MaxCycles == 3      \* monitoring cycles run by the executor thread
MaxRequests == 1    \* POST /api/setup-watches requests served
MaxEntries == 2     \* snapshots saved before a lookup
MaxReports == 2     \* monitoring cycles that log and report

(***************************************************************************)
(* URLs.  A URL string is modelled by its components as urlparse splits    *)
(* it: scheme, netloc, path, query, fragment.  netloc and path are token   *)
(* sequences (e.g. <<"www.", "example.com", ":", "80">>, <<"/", "path",    *)
(* "/">>), so that lower(), startswith('www.'), rsplit(':', 1) and         *)
(* endswith('/') are computed as the code computes them.  Two URL strings  *)
(* are equal iff their records are equal.  The empty string is EmptyUrl.   *)
(***************************************************************************)
EmptyUrl == [scheme |-> "", netloc |-> <<>>, path |-> <<>>, query |-> "", fragment |-> ""]

\* str.lower() on the tokens of the URL domain
Lower(t) ==
    CASE t = "HTTP" -> "http"
      [] t = "HTTPS" -> "https"
      [] t = "WWW." -> "www."
      [] t = "Example.com" -> "example.com"
      [] OTHER -> t

LowerSeq(s) == [i \in 1..Len(s) |-> Lower(s[i])]

\* urlparse(url): the scheme comes back lowercased, the rest as written
UrlParse(url) == [url EXCEPT !.scheme = Lower(url.scheme)]

\* urlunparse((scheme, netloc, path, '', '', ''))
UrlUnparse(scheme, netloc, path) ==
    [scheme |-> scheme,
     netloc |-> netloc,
     path |-> IF netloc # <<>> /\ path # <<>> /\ path[1] # "/"
              THEN <<"/">> \o path ELSE path,
     query |-> "",
     fragment |-> ""]

\* index of the last ':' of a netloc, 0 when there is none
LastColon(netloc) ==
    IF \E i \in 1..Len(netloc) : netloc[i] = ":"
    THEN CHOOSE i \in 1..Len(netloc) :
            /\ netloc[i] = ":"
            /\ \A j \in (i+1)..Len(netloc) : netloc[j] # ":"
    ELSE 0

\* the default-port removal of _normalize_url
StripDefaultPort(scheme, netloc) ==
    LET c == LastColon(netloc) IN
    IF c = 0 THEN netloc
    ELSE LET host == SubSeq(netloc, 1, c - 1)
             port == SubSeq(netloc, c + 1, Len(netloc))
         IN IF \/ (scheme = "http" /\ port = <<"80">>)
               \/ (scheme = "https" /\ port = <<"443">>)
            THEN host ELSE netloc

\* the trailing-slash removal of _normalize_url: one slash, never the root
StripTrailingSlash(path) ==
    IF path # <<"/">> /\ Len(path) > 0 /\ path[Len(path)] = "/"
    THEN SubSeq(path, 1, Len(path) - 1)
    ELSE path

\* a variant of _normalize_url that keeps the default port
NormalizeUrl_KeepPort(url) ==
    IF url = EmptyUrl THEN url
    ELSE LET parsed == UrlParse(url)
             scheme == IF parsed.scheme # "" THEN Lower(parsed.scheme) ELSE "http"
         IN UrlUnparse(scheme, LowerSeq(parsed.netloc), StripTrailingSlash(parsed.path))

\* ChangeDetector._normalize_url
NormalizeUrl(url) ==
    IF url = EmptyUrl THEN url
    ELSE LET parsed == UrlParse(url)
             scheme == IF parsed.scheme # "" THEN Lower(parsed.scheme) ELSE "http"
             netloc == StripDefaultPort(scheme, LowerSeq(parsed.netloc))
             path == StripTrailingSlash(parsed.path)
         IN UrlUnparse(scheme, netloc, path)

\* ChangeDetector._generate_url_variants (the list is built from a set, so
\* its order is not fixed; callers see a set)
GenerateUrlVariants(url) ==
    LET parsed == UrlParse(url)
        scheme == parsed.scheme
        netloc == IF parsed.netloc # <<>> THEN parsed.netloc ELSE parsed.path
        path == IF parsed.scheme # "" THEN parsed.path ELSE <<>>
        wscheme == IF scheme # "" THEN scheme ELSE "http"
    IN  {NormalizeUrl(url)}
        \cup (IF scheme # "http"
              THEN {NormalizeUrl(UrlUnparse("http", netloc, path))} ELSE {})
        \cup (IF scheme # "https"
              THEN {NormalizeUrl(UrlUnparse("https", netloc, path))} ELSE {})
        \cup (IF netloc # <<>> /\ netloc[1] = "www."
              THEN {NormalizeUrl(UrlUnparse(wscheme, Tail(netloc), path))}
              ELSE {NormalizeUrl(UrlUnparse(wscheme, <<"www.">> \o netloc, path))})

(***************************************************************************)
(* The URL domain.                                                         *)
(***************************************************************************)
Slashes(k) == [i \in 1..k |-> "/"]

Url(scheme, netloc, path, query, fragment) ==
    [scheme |-> scheme, netloc |-> netloc, path |-> path,
     query |-> query, fragment |-> fragment]

Schemes == {"http", "https", "HTTP"}
WwwPrefixes == {<<>>, <<"www.">>, <<"WWW.">>}
Hosts == {<<"example.com">>, <<"Example.com">>}
Ports == {<<>>, <<":", "80">>, <<":", "443">>, <<":", "8080">>}
Paths == {Slashes(k) : k \in 0..MaxSlashes}
         \cup {<<"/", "path">> \o Slashes(k) : k \in 0..MaxSlashes}
Queries == {"", "x=1"}
Fragments == {"", "frag"}

AllUrls ==
    {Url(s, w \o h \o p, pa, q, f) :
        s \in Schemes, w \in WwwPrefixes, h \in Hosts, p \in Ports,
        pa \in Paths, q \in Queries, f \in Fragments}

(***************************************************************************)
(* Data model (src/models.py).  A UrlMetadata is a record                  *)
(*   [url, status_code, headers, final_url, content_length, html_metadata] *)
(* with Optional fields as None / Some(x); an HtmlMetadata is              *)
(*   [title, meta_description, canonical_url, og_metadata, other_metadata, *)
(*    content_analysis].                                                   *)
(* Mappings (headers, og_metadata, other_metadata, content_analysis) are   *)
(* functions from key strings.  The fields that no rule of the detector    *)
(* reads (timestamp, response_time, error, twitter_metadata, ...) are left *)
(* out.  A stored snapshot is the dict _save_current_metadata builds: a    *)
(* function from field names, with html_metadata present only when the     *)
(* metadata carried one.                                                   *)
(***************************************************************************)
HeaderLower(k) ==
    CASE k = "Last-Modified" -> "last-modified"
      [] k = "ETag" -> "etag"
      [] k = "Content-Type" -> "content-type"
      [] k = "Content-Length" -> "content-length"
      [] k = "Cache-Control" -> "cache-control"
      [] k = "Server" -> "server"
      [] OTHER -> k

\* {k.lower(): v for k, v in (headers or {}).items()}; the header mappings of
\* the model never hold two keys that differ only in case (they come from a
\* case-insensitive mapping of the HTTP library)
LowerKeys(h) ==
    [k \in {HeaderLower(x) : x \in DOMAIN h} |->
        h[CHOOSE x \in DOMAIN h : HeaderLower(x) = k]]

\* dict.get(key): None when the key is absent
GetOpt(d, k) == IF k \in DOMAIN d THEN Some(d[k]) ELSE None

Abs(x) == IF x < 0 THEN -x ELSE x

Range(s) == {s[i] : i \in 1..Len(s)}

RECURSIVE ConcatAll(_)
ConcatAll(ss) == IF ss = <<>> THEN <<>> ELSE Head(ss) \o ConcatAll(Tail(ss))

\* a list holding rec when cond holds, the empty list otherwise
When(cond, rec) == IF cond THEN <<rec>> ELSE <<>>

\* models.ChangeDetails
ChangeDetails(type, source, details, severity, alert) ==
    [change_type |-> type, source |-> source, details |-> details,
     severity |-> severity, policy_alert |-> alert]

\* models.PolicyAlert (url and timestamp left out)
PolicyAlert(type, severity, details) ==
    [alert_type |-> type, severity |-> severity, details |-> details]

\* the serializable dict built by _save_current_metadata
SerializeMetadata(m) ==
    [url |-> m.url,
     status_code |-> m.status_code,
     headers |-> LowerKeys(m.headers),
     final_url |-> m.final_url,
     content_length |-> m.content_length]
    @@ (IF m.html_metadata # None
        THEN [html_metadata |->
                [title |-> m.html_metadata[1].title,
                 meta_description |-> m.html_metadata[1].meta_description,
                 canonical_url |-> m.html_metadata[1].canonical_url,
                 og_metadata |-> m.html_metadata[1].og_metadata,
                 other_metadata |-> m.html_metadata[1].other_metadata,
                 content_analysis |-> m.html_metadata[1].content_analysis]]
        ELSE EmptyDict)

(***************************************************************************)
(* Thresholds (ChangeDetector.__init__, MonitorSettings).                  *)
(***************************************************************************)
DefaultContentSizeThreshold == 1000
DefaultWordCountThreshold == 50
DefaultWordCountMajorThreshold == 100
DefaultPolicyKeywordCountThreshold == 2

DefaultSettings ==
    [content_size_threshold |-> DefaultContentSizeThreshold,
     word_count_threshold |-> DefaultWordCountThreshold,
     word_count_major_threshold |-> DefaultWordCountMajorThreshold,
     policy_keyword_count_threshold |-> DefaultPolicyKeywordCountThreshold]

\* the fixed word-count limits of detect_stealth_updates
StealthMajorDelta == 100
StealthMinorDelta == 50

(***************************************************************************)
(* Field differencer.                                                      *)
(***************************************************************************)
ImportantHeaders == <<"last-modified", "etag", "content-type", "content-length", "cache-control">>

\* a variant of _detect_header_changes that looks the headers up as written
DetectHeaderChanges_CaseSensitive(current_headers, previous_headers) ==
    LET One(header) ==
            LET current_val == GetOpt(current_headers, header)
                previous_val == GetOpt(previous_headers, header)
            IN When(current_val # previous_val,
                    ChangeDetails("header_change", "http_metadata",
                        [header |-> header, old_value |-> previous_val,
                         new_value |-> current_val],
                        IF header = "last-modified" THEN "low" ELSE "medium", FALSE))
    IN ConcatAll([i \in 1..Len(ImportantHeaders) |-> One(ImportantHeaders[i])])

\* ChangeDetector._detect_header_changes
DetectHeaderChanges(current_headers, previous_headers) ==
    LET current_norm == LowerKeys(current_headers)
        previous_norm == LowerKeys(previous_headers)
        One(header) ==
            LET current_val == GetOpt(current_norm, HeaderLower(header))
                previous_val == GetOpt(previous_norm, HeaderLower(header))
            IN When(current_val # previous_val,
                    ChangeDetails("header_change", "http_metadata",
                        [header |-> header, old_value |-> previous_val,
                         new_value |-> current_val],
                        IF header = "last-modified" THEN "low" ELSE "medium", FALSE))
    IN ConcatAll([i \in 1..Len(ImportantHeaders) |-> One(ImportantHeaders[i])])

\* a variant of _detect_http_changes whose size rule fires at the threshold
DetectHttpChanges_AtThreshold(current, previous, st) ==
    LET current_length == current.content_length
        previous_length == Get(previous, "content_length", 0)
    IN  When(current.status_code # Get(previous, "status_code", None),
             ChangeDetails("status_change", "http_metadata",
                [old_status |-> Get(previous, "status_code", None),
                 new_status |-> current.status_code],
                IF current.status_code # None /\ current.status_code[1] >= 400
                THEN "high" ELSE "medium", FALSE))
        \o When(current.final_url # Get(previous, "final_url", None),
             ChangeDetails("redirect_change", "http_metadata",
                [old_url |-> Get(previous, "final_url", None),
                 new_url |-> current.final_url],
                "medium", FALSE))
        \o When(Abs(current_length - previous_length) >= st.content_size_threshold,
             ChangeDetails("content_size_change", "http_metadata",
                [old_size |-> previous_length, new_size |-> current_length],
                "medium", FALSE))
        \o DetectHeaderChanges(current.headers, Get(previous, "headers", EmptyDict))

\* ChangeDetector._detect_http_changes (details.change_percent, a float, is
\* left out)
DetectHttpChanges(current, previous, st) ==
    LET current_length == current.content_length
        previous_length == Get(previous, "content_length", 0)
    IN  When(current.status_code # Get(previous, "status_code", None),
             ChangeDetails("status_change", "http_metadata",
                [old_status |-> Get(previous, "status_code", None),
                 new_status |-> current.status_code],
                IF current.status_code # None /\ current.status_code[1] >= 400
                THEN "high" ELSE "medium", FALSE))
        \o When(current.final_url # Get(previous, "final_url", None),
             ChangeDetails("redirect_change", "http_metadata",
                [old_url |-> Get(previous, "final_url", None),
                 new_url |-> current.final_url],
                "medium", FALSE))
        \o When(Abs(current_length - previous_length) > st.content_size_threshold,
             ChangeDetails("content_size_change", "http_metadata",
                [old_size |-> previous_length, new_size |-> current_length],
                "medium", FALSE))
        \o DetectHeaderChanges(current.headers, Get(previous, "headers", EmptyDict))

ImportantOgFields == <<"title", "description", "image", "url">>

\* ChangeDetector._detect_og_changes
DetectOgChanges(current_og, previous_og) ==
    LET One(field) ==
            When(GetOpt(current_og, field) # GetOpt(previous_og, field),
                 ChangeDetails("opengraph_change", "html_metadata",
                    [field |-> field, old_value |-> GetOpt(previous_og, field),
                     new_value |-> GetOpt(current_og, field)],
                    "medium", FALSE))
    IN ConcatAll([i \in 1..Len(ImportantOgFields) |-> One(ImportantOgFields[i])])

\* ChangeDetector._detect_content_changes
DetectContentChanges(current_content, previous_content, st) ==
    LET current_words == Get(current_content, "word_count", 0)
        previous_words == Get(previous_content, "word_count", 0)
        current_headings == Get(current_content, "heading_structure", EmptyDict)
        previous_headings == Get(previous_content, "heading_structure", EmptyDict)
    IN  When(Abs(current_words - previous_words) > st.word_count_threshold,
             ChangeDetails("word_count_change", "content_analysis",
                [old_count |-> previous_words, new_count |-> current_words],
                IF Abs(current_words - previous_words) > st.word_count_major_threshold
                THEN "medium" ELSE "low", FALSE))
        \o When(current_headings # previous_headings,
             ChangeDetails("heading_structure_change", "content_analysis",
                [old_structure |-> previous_headings,
                 new_structure |-> current_headings],
                "low", FALSE))

\* a variant of _detect_html_metadata_changes that rates a title change medium
DetectHtmlMetadataChanges_TitleMedium(current, previous, st) ==
    When(current.title # Get(previous, "title", None),
         ChangeDetails("title_change", "html_metadata",
            [old_title |-> Get(previous, "title", None), new_title |-> current.title],
            "medium", FALSE))
    \o When(current.meta_description # Get(previous, "meta_description", None),
         ChangeDetails("meta_description_change", "html_metadata",
            [old_description |-> Get(previous, "meta_description", None),
             new_description |-> current.meta_description],
            "medium", FALSE))
    \o When(current.canonical_url # Get(previous, "canonical_url", None),
         ChangeDetails("canonical_url_change", "html_metadata",
            [old_canonical |-> Get(previous, "canonical_url", None),
             new_canonical |-> current.canonical_url],
            "medium", FALSE))
    \o DetectOgChanges(current.og_metadata, Get(previous, "og_metadata", EmptyDict))
    \o DetectContentChanges(current.content_analysis,
                            Get(previous, "content_analysis", EmptyDict), st)

\* ChangeDetector._detect_html_metadata_changes
DetectHtmlMetadataChanges(current, previous, st) ==
    When(current.title # Get(previous, "title", None),
         ChangeDetails("title_change", "html_metadata",
            [old_title |-> Get(previous, "title", None), new_title |-> current.title],
            "high", FALSE))
    \o When(current.meta_description # Get(previous, "meta_description", None),
         ChangeDetails("meta_description_change", "html_metadata",
            [old_description |-> Get(previous, "meta_description", None),
             new_description |-> current.meta_description],
            "medium", FALSE))
    \o When(current.canonical_url # Get(previous, "canonical_url", None),
         ChangeDetails("canonical_url_change", "html_metadata",
            [old_canonical |-> Get(previous, "canonical_url", None),
             new_canonical |-> current.canonical_url],
            "medium", FALSE))
    \o DetectOgChanges(current.og_metadata, Get(previous, "og_metadata", EmptyDict))
    \o DetectContentChanges(current.content_analysis,
                            Get(previous, "content_analysis", EmptyDict), st)

PolicyKeywords == <<"privacy", "terms", "liability", "termination", "rights", "governance">>

\* the f'{keyword}_keyword_count' key
KeywordCountKey(keyword) ==
    CASE keyword = "privacy" -> "privacy_keyword_count"
      [] keyword = "terms" -> "terms_keyword_count"
      [] keyword = "liability" -> "liability_keyword_count"
      [] keyword = "termination" -> "termination_keyword_count"
      [] keyword = "rights" -> "rights_keyword_count"
      [] keyword = "governance" -> "governance_keyword_count"

\* ChangeDetector._detect_policy_content_changes
DetectPolicyContentChanges(current_content, previous_content, st) ==
    LET One(keyword) ==
            LET current_count == Get(current_content, KeywordCountKey(keyword), 0)
                previous_count == Get(previous_content, KeywordCountKey(keyword), 0)
            IN When(Abs(current_count - previous_count) > st.policy_keyword_count_threshold,
                    ChangeDetails("policy_keyword_change", "policy_analysis",
                        [keyword |-> keyword, old_count |-> previous_count,
                         new_count |-> current_count],
                        "medium", TRUE))
        current_versions == Get(current_content, "version_indicators", <<>>)
        previous_versions == Get(previous_content, "version_indicators", <<>>)
    IN  ConcatAll([i \in 1..Len(PolicyKeywords) |-> One(PolicyKeywords[i])])
        \o When(Range(current_versions) # Range(previous_versions),
             ChangeDetails("version_indicator_change", "policy_analysis",
                [old_versions |-> previous_versions, new_versions |-> current_versions],
                "high", TRUE))

\* ChangeDetector._detect_keyword_changes
DetectKeywordChanges(current_content, previous_content) ==
    LET current_legal == Get(current_content, "has_legal_language", FALSE)
        previous_legal == Get(previous_content, "has_legal_language", FALSE)
    IN When(current_legal # previous_legal,
            ChangeDetails("legal_language_change", "policy_analysis",
                [old_state |-> previous_legal, new_state |-> current_legal],
                "medium", TRUE))

\* a variant of _detect_policy_changes whose version_change record carries
\* no policy alert
DetectPolicyChanges_NoAlert(current, previous, st) ==
    LET current_version == GetOpt(current.other_metadata, "version")
        previous_version == GetOpt(Get(previous, "other_metadata", EmptyDict), "version")
    IN  When(current_version # previous_version,
             ChangeDetails("version_change", "policy_analysis",
                [old_version |-> previous_version, new_version |-> current_version],
                "high", FALSE))
        \o DetectPolicyContentChanges(current.content_analysis,
                                      Get(previous, "content_analysis", EmptyDict), st)
        \o DetectKeywordChanges(current.content_analysis,
                                Get(previous, "content_analysis", EmptyDict))

\* ChangeDetector._detect_policy_changes
DetectPolicyChanges(current, previous, st) ==
    LET current_version == GetOpt(current.other_metadata, "version")
        previous_version == GetOpt(Get(previous, "other_metadata", EmptyDict), "version")
    IN  When(current_version # previous_version,
             ChangeDetails("version_change", "policy_analysis",
                [old_version |-> previous_version, new_version |-> current_version],
                "high", TRUE))
        \o DetectPolicyContentChanges(current.content_analysis,
                                      Get(previous, "content_analysis", EmptyDict), st)
        \o DetectKeywordChanges(current.content_analysis,
                                Get(previous, "content_analysis", EmptyDict))

(***************************************************************************)
(* Stealth heuristics.                                                     *)
(***************************************************************************)
\* a variant of detect_stealth_updates whose Last-Modified rule ignores the
\* word-count delta
DetectStealthUpdates_NoMinorGuard(current_meta, previous_meta) ==
    IF current_meta.html_metadata = None \/ "html_metadata" \notin DOMAIN previous_meta
    THEN <<>>
    ELSE
    LET current_html == current_meta.html_metadata[1]
        previous_html == previous_meta["html_metadata"]
        previous_content == Get(previous_html, "content_analysis", EmptyDict)
        current_words == Get(current_html.content_analysis, "word_count", 0)
        previous_words == Get(previous_content, "word_count", 0)
        current_versions == Get(current_html.content_analysis, "version_indicators", <<>>)
        previous_versions == Get(previous_content, "version_indicators", <<>>)
        current_headers == LowerKeys(current_meta.headers)
        previous_headers == LowerKeys(Get(previous_meta, "headers", EmptyDict))
        current_last_modified == GetOpt(current_headers, "last-modified")
        previous_last_modified == GetOpt(previous_headers, "last-modified")
    IN  When(/\ Abs(current_words - previous_words) > StealthMajorDelta
             /\ Range(current_versions) = Range(previous_versions),
             PolicyAlert("STEALTH_CONTENT_CHANGE", "HIGH",
                [word_count_change |-> current_words - previous_words,
                 current_versions |-> current_versions,
                 previous_versions |-> previous_versions]))
        \o When(current_last_modified # previous_last_modified,
             PolicyAlert("STEALTH_LAST_MODIFIED_UPDATE", "MEDIUM",
                [last_modified_change |-> <<previous_last_modified, current_last_modified>>,
                 word_count_change |-> current_words - previous_words]))

\* ChangeDetector.detect_stealth_updates
DetectStealthUpdates(current_meta, previous_meta) ==
    IF current_meta.html_metadata = None \/ "html_metadata" \notin DOMAIN previous_meta
    THEN <<>>
    ELSE
    LET current_html == current_meta.html_metadata[1]
        previous_html == previous_meta["html_metadata"]
        previous_content == Get(previous_html, "content_analysis", EmptyDict)
        current_words == Get(current_html.content_analysis, "word_count", 0)
        previous_words == Get(previous_content, "word_count", 0)
        current_versions == Get(current_html.content_analysis, "version_indicators", <<>>)
        previous_versions == Get(previous_content, "version_indicators", <<>>)
        current_headers == LowerKeys(current_meta.headers)
        previous_headers == LowerKeys(Get(previous_meta, "headers", EmptyDict))
        current_last_modified == GetOpt(current_headers, "last-modified")
        previous_last_modified == GetOpt(previous_headers, "last-modified")
    IN  When(/\ Abs(current_words - previous_words) > StealthMajorDelta
             /\ Range(current_versions) = Range(previous_versions),
             PolicyAlert("STEALTH_CONTENT_CHANGE", "HIGH",
                [word_count_change |-> current_words - previous_words,
                 current_versions |-> current_versions,
                 previous_versions |-> previous_versions]))
        \o When(/\ current_last_modified # previous_last_modified
                /\ Abs(current_words - previous_words) < StealthMinorDelta,
             PolicyAlert("STEALTH_LAST_MODIFIED_UPDATE", "MEDIUM",
                [last_modified_change |-> <<previous_last_modified, current_last_modified>>,
                 word_count_change |-> current_words - previous_words]))

(***************************************************************************)
(* Snapshot store.                                                         *)
(***************************************************************************)
\* Python truthiness of an Optional[str] holding a URL
Truthy(u) == u # None /\ u # Some(EmptyUrl)

\* the test of the fallback loop of _get_previous_metadata on one entry
FallbackMatch(entry, url, norm_url) ==
    LET final == Get(entry, "final_url", None)
        canonical == IF "html_metadata" \in DOMAIN entry
                     THEN Get(entry["html_metadata"], "canonical_url", None)
                     ELSE None
    IN  \/ Truthy(final) /\ (final[1] = url \/ NormalizeUrl(final[1]) = norm_url)
        \/ Truthy(canonical) /\ (canonical[1] = url \/ NormalizeUrl(canonical[1]) = norm_url)

\* a variant of _get_previous_metadata that scans the stored final_url and
\* canonical_url fields before it tries the keys
GetPreviousMetadata_ScanFirst(h, ord, url) ==
    LET norm_url == NormalizeUrl(url)
        hits == GenerateUrlVariants(url) \cap DOMAIN h
        matches == {i \in 1..Len(ord) : FallbackMatch(h[ord[i]], url, norm_url)}
    IN  IF matches # {}
        THEN {Some(h[ord[CHOOSE i \in matches : \A j \in matches : i <= j]])}
        ELSE IF url \in DOMAIN h THEN {Some(h[url])}
        ELSE IF norm_url \in DOMAIN h THEN {Some(h[norm_url])}
        ELSE IF hits # {} THEN {Some(h[v]) : v \in hits}
        ELSE {None}

\* ChangeDetector._get_previous_metadata: the set of values the call may
\* return, None or Some(entry).  The variants are tried in the iteration
\* order of a Python set of strings, which is not fixed, so when several
\* variants are keys any of their entries may be returned; the fallback
\* scan follows the insertion order of the mapping.
GetPreviousMetadata(h, ord, url) ==
    LET norm_url == NormalizeUrl(url)
        hits == GenerateUrlVariants(url) \cap DOMAIN h
        matches == {i \in 1..Len(ord) : FallbackMatch(h[ord[i]], url, norm_url)}
    IN  IF url \in DOMAIN h THEN {Some(h[url])}
        ELSE IF norm_url \in DOMAIN h THEN {Some(h[norm_url])}
        ELSE IF hits # {} THEN {Some(h[v]) : v \in hits}
        ELSE IF matches # {}
             THEN {Some(h[ord[CHOOSE i \in matches : \A j \in matches : i <= j]])}
        ELSE {None}

\* the key _save_current_metadata stores the snapshot under
SaveKey(metadata) ==
    NormalizeUrl(IF Truthy(metadata.final_url) THEN metadata.final_url[1] ELSE metadata.url)

\* ChangeDetector._save_current_metadata: the mapping after the write
SaveCurrentMetadata(h, metadata) ==
    LET key == SaveKey(metadata) IN
    [k \in DOMAIN h \cup {key} |->
        IF k = key THEN SerializeMetadata(metadata) ELSE h[k]]

\* the insertion order after the write: an existing key keeps its place
SaveOrder(h, ord, metadata) ==
    IF SaveKey(metadata) \in DOMAIN h THEN ord ELSE Append(ord, SaveKey(metadata))

FirstDetection ==
    ChangeDetails("first_detection", "direct_metadata",
        [message |-> "URL detected for the first time"], "low", FALSE)

\* a variant of detect_metadata_changes that runs the policy rules before the
\* HTML rules
DetectChanges_PolicyFirst(current_meta, previous_meta, st) ==
    DetectHttpChanges(current_meta, previous_meta, st)
    \o (IF current_meta.html_metadata # None /\ "html_metadata" \in DOMAIN previous_meta
        THEN DetectPolicyChanges(current_meta.html_metadata[1],
                                 previous_meta["html_metadata"], st)
        ELSE <<>>)
    \o (IF current_meta.html_metadata # None /\ "html_metadata" \in DOMAIN previous_meta
        THEN DetectHtmlMetadataChanges(current_meta.html_metadata[1],
                                       previous_meta["html_metadata"], st)
        ELSE <<>>)

\* the change list of detect_metadata_changes for a resolved previous snapshot
DetectChanges(current_meta, previous_meta, st) ==
    DetectHttpChanges(current_meta, previous_meta, st)
    \o (IF current_meta.html_metadata # None /\ "html_metadata" \in DOMAIN previous_meta
        THEN DetectHtmlMetadataChanges(current_meta.html_metadata[1],
                                       previous_meta["html_metadata"], st)
        ELSE <<>>)
    \o (IF current_meta.html_metadata # None /\ "html_metadata" \in DOMAIN previous_meta
        THEN DetectPolicyChanges(current_meta.html_metadata[1],
                                 previous_meta["html_metadata"], st)
        ELSE <<>>)

(***************************************************************************)
(* The history file.  Its text is a sequence of tokens: punctuation, quoted *)
(* keys, whitespace (" ", "\n", "  "), and two placeholders: "<entries>"   *)
(* for the members of a non-empty metadata_history object (the mapping is  *)
(* file.entries, in the order file.eorder) and "<watch>" for the members   *)
(* keyed by a URL at the top level (the URLs are file.watch).  top is the  *)
(* value of ChangeDetector.history: its JSON type, its string keys in      *)
(* insertion order and the URLs that are top-level keys; the value under   *)
(* metadata_history is the variable history.                               *)
(***************************************************************************)
Text(tokens) ==
    [exists |-> TRUE, text |-> tokens, entries |-> EmptyDict, eorder |-> <<>>, watch |-> {}]

NoFile == [Text(<<>>) EXCEPT !.exists = FALSE]

\* the store _load_history starts from when there is nothing to load
FreshStore ==
    [type |-> "dict", keys |-> <<"metadata_history", "policy_alerts">>, watch |-> {}]

NotLoaded == [type |-> "unloaded", keys |-> <<>>, watch |-> {}]

\* the outcome of a method call: a return value or the exception it raised
Returned(op, value) == [op |-> op, raised |-> "none", value |-> value]
Raised(op, exception) == [op |-> op, raised |-> exception, value |-> FALSE]

IdleFile == file = NoFile /\ top = FreshStore /\ res = Returned("none", FALSE)

\* d[key] = ... on the top-level dict: a new key goes last
WithKey(t, key) ==
    IF key \in Range(t.keys) THEN t ELSE [t EXCEPT !.keys = Append(@, key)]

Whitespace == {" ", "\n", "  "}

Quote(key) ==
    CASE key = "metadata_history" -> "\"metadata_history\""
      [] key = "policy_alerts" -> "\"policy_alerts\""
      [] OTHER -> key

\* json.dump(value, f, indent=2) of the top-level value
JsonDump(t, h, ord) ==
    LET Value(key) ==
            CASE key = "metadata_history" ->
                    IF h = EmptyDict THEN <<"{", "}">> ELSE <<"{", "<entries>", "}">>
              [] key = "policy_alerts" -> <<"[", "]">>
        Member(key) ==
            IF key = "<watch>" THEN <<"\n", "  ", "<watch>">>
            ELSE <<"\n", "  ", Quote(key), ":", " ">> \o Value(key)
        Members == [i \in 1..Len(t.keys) |->
                        Member(t.keys[i]) \o (IF i < Len(t.keys) THEN <<",">> ELSE <<>>)]
        tokens ==
            CASE t.type = "null" -> <<"null">>
              [] t.type = "list" -> <<"[", "]">>
              [] t.type = "dict" ->
                    IF t.keys = <<>> THEN <<"{", "}">>
                    ELSE <<"{">> \o ConcatAll(Members) \o <<"\n", "}">>
    IN  [exists |-> TRUE, text |-> tokens,
         entries |-> IF t.type = "dict" /\ "metadata_history" \in Range(t.keys)
                     THEN h ELSE EmptyDict,
         eorder |-> IF t.type = "dict" /\ "metadata_history" \in Range(t.keys)
                    THEN ord ELSE <<>>,
         watch |-> IF t.type = "dict" THEN t.watch ELSE {}]

\* the tokens of a text without the whitespace between them
Compact(tokens) == SelectSeq(tokens, LAMBDA t : t \notin Whitespace)

\* str.strip()
Strip(tokens) ==
    LET solid == {i \in 1..Len(tokens) : tokens[i] \notin Whitespace}
    IN  IF solid = {} THEN <<>>
        ELSE SubSeq(tokens, CHOOSE i \in solid : \A j \in solid : i <= j,
                            CHOOSE i \in solid : \A j \in solid : i >= j)

\* the members of a JSON object from token i on: the keys read, or <<"!">>
\* when the tokens are not the members of an object
RECURSIVE ParseMembers(_, _, _)
ParseMembers(t, i, keys) ==
    LET At(j) == IF j <= Len(t) THEN t[j] ELSE ""
        IsKey == At(i) \in {Quote("metadata_history"), Quote("policy_alerts")}
        key == IF At(i) = Quote("metadata_history") THEN "metadata_history"
               ELSE "policy_alerts"
        width ==
            CASE At(i) = "<watch>" -> 1
              [] IsKey /\ At(i+1) = ":" /\ At(i+2) = "{" /\ At(i+3) = "}" -> 4
              [] IsKey /\ At(i+1) = ":" /\ At(i+2) = "{" /\ At(i+3) = "<entries>"
                       /\ At(i+4) = "}" -> 5
              [] IsKey /\ At(i+1) = ":" /\ At(i+2) = "[" /\ At(i+3) = "]" -> 4
              [] OTHER -> 0
        read == Append(keys, IF At(i) = "<watch>" THEN "<watch>" ELSE key)
    IN  IF width = 0 THEN <<"!">>
        ELSE IF At(i + width) = "}" /\ i + width = Len(t) THEN read
        ELSE IF At(i + width) = "," THEN ParseMembers(t, i + width + 1, read)
        ELSE <<"!">>

\* json.load(f) on the file opened with encoding utf-8: the value read or
\* the exception raised
JsonLoad(f) ==
    LET t == Compact(f.text)
        keys == IF Len(t) >= 2 /\ t[1] = "{" THEN ParseMembers(t, 2, <<>>) ELSE <<"!">>
        Value(type, ks) ==
            [raised |-> "none",
             value |-> [type |-> type, keys |-> ks,
                        watch |-> IF "<watch>" \in Range(ks) THEN f.watch ELSE {}]]
    IN  IF "\\xff" \in Range(f.text) THEN [raised |-> "UnicodeDecodeError"]
        ELSE IF t = <<"null">> THEN Value("null", <<>>)
        ELSE IF t = <<"[", "]">> THEN Value("list", <<>>)
        ELSE IF t = <<"{", "}">> THEN Value("dict", <<>>)
        ELSE IF keys # <<"!">> THEN Value("dict", keys)
        ELSE [raised |-> "JSONDecodeError"]

\* the texts is_first_run compares the stripped file content with
FirstRunSentinels ==
    {<<"{", "}">>,
     <<"null">>,
     <<"{", Quote("metadata_history"), ":", " ", "{", "}", "}">>}

\* ChangeDetector.is_first_run: the value returned for the file f
FirstRunValue(f) ==
    IF ~f.exists THEN TRUE
    ELSE IF "\\xff" \in Range(f.text) THEN TRUE
    ELSE Strip(f.text) = <<>> \/ Strip(f.text) \in FirstRunSentinels

(***************************************************************************)
(* URL scheduling (UrlScheduler; AISafetyMonitor keeps the same schedule   *)
(* with one interval per URL).  Times are whole clock units.               *)
(***************************************************************************)
\* _initialize_schedules at time t: every URL is due at once
InitializeSchedules(urls, t) ==
    [u \in Range(urls) |-> [last_checked |-> None, next_check |-> Some(t)]]

\* a variant of get_due_urls that waits until the clock has passed next_check
GetDueUrls_Late(schedules, urls, t) ==
    SelectSeq(urls, LAMBDA u :
        schedules[u].next_check = None \/ t > schedules[u].next_check[1])

\* UrlScheduler.get_due_urls at time t, in the order of the schedules dict
GetDueUrls(schedules, urls, t) ==
    SelectSeq(urls, LAMBDA u :
        schedules[u].next_check = None \/ t >= schedules[u].next_check[1])

\* a variant of update_schedule that records the check and leaves next_check
\* as it was
UpdateSchedule_KeepNext(schedules, interval, url, t) ==
    IF url \in DOMAIN schedules
    THEN [schedules EXCEPT ![url].last_checked = Some(t)]
    ELSE schedules

\* UrlScheduler.update_schedule(url) at time t
UpdateSchedule(schedules, interval, url, t) ==
    IF url \in DOMAIN schedules
    THEN [schedules EXCEPT ![url] = [last_checked |-> Some(t),
                                     next_check |-> Some(t + interval)]]
    ELSE schedules

\* the state of the service objects before a MonitoringService exists
IdleCycle == [pc |-> "none"]
IdleHandler == [pc |-> "none"]

IdleService ==
    /\ sched = [interval |-> 1, urls |-> <<>>, schedules |-> EmptyDict]
    /\ now = 0
    /\ svc = IdleCycle
    /\ hnd = IdleHandler

(***************************************************************************)
(* Inputs of the store specification.                                      *)
(***************************************************************************)
UrlPlain == Url("http", <<"example.com">>, <<"/", "path">>, "", "")
UrlHttps == Url("https", <<"example.com">>, <<"/", "path">>, "", "")
UrlQuery == Url("http", <<"example.com">>, <<"/", "path">>, "x=1", "")
UrlOther == Url("https", <<"other.org">>, <<"/", "path">>, "", "")

BaseContent ==
    [word_count |-> 1000,
     heading_structure |-> [h1 |-> 1],
     privacy_keyword_count |-> 3,
     terms_keyword_count |-> 0,
     liability_keyword_count |-> 0,
     termination_keyword_count |-> 0,
     rights_keyword_count |-> 0,
     governance_keyword_count |-> 0,
     version_indicators |-> <<"v1.0">>,
     has_legal_language |-> TRUE]

Html(title, canonical, content) ==
    [title |-> title, meta_description |-> None, canonical_url |-> canonical,
     og_metadata |-> EmptyDict, other_metadata |-> EmptyDict,
     content_analysis |-> content]

Meta(url, final, length, headers, html) ==
    [url |-> url, status_code |-> Some(200), headers |-> headers,
     final_url |-> final, content_length |-> length, html_metadata |-> html]

StoreUrls == {UrlPlain, UrlHttps, UrlQuery}

\* the metadata a fetch of url may produce (get_url_metadata sets url to the
\* URL asked for)
StoreMetas(url) ==
    {Meta(url, final, length, [x \in {"Content-Type"} |-> "text/html"], html) :
        final \in {None, Some(url), Some(UrlHttps), Some(UrlOther)},
        length \in {0, 2000},
        html \in {None,
                  Some(Html(Some("Usage Policy"), None, BaseContent)),
                  Some(Html(Some("Usage Policy"), Some(UrlPlain), BaseContent))}}

(***************************************************************************)
(* Spec: the store under detect_metadata_changes calls.                    *)
(***************************************************************************)
NoCall ==
    [called |-> FALSE, url |-> EmptyUrl, meta |-> None, previous |-> None,
     changes |-> <<>>, repeat |-> FALSE, size_before |-> 0, seen_before |-> FALSE]

Idle ==
    /\ cur = None /\ prev = None /\ out = [op |-> "none"]
    /\ nurl = EmptyUrl /\ nout = [op |-> "none"]
    /\ IdleFile
    /\ IdleService

Init ==
    /\ history = EmptyDict
    /\ order = <<>>
    /\ calls = 0
    /\ last = NoCall
    /\ tracked = {}
    /\ settings = DefaultSettings
    /\ Idle

\* ChangeDetector.detect_metadata_changes(url, current_meta)
Detect(url, current_meta) ==
    /\ calls < MaxCalls
    /\ top.type = "dict"
    /\ \E previous_meta \in GetPreviousMetadata(history, order, url) :
          last' = [called |-> TRUE,
                   url |-> url,
                   meta |-> current_meta,
                   previous |-> previous_meta,
                   changes |-> IF previous_meta = None
                               THEN <<FirstDetection>>
                               ELSE DetectChanges(current_meta, previous_meta[1], settings),
                   repeat |-> last.called /\ last.url = url /\ last.meta = current_meta,
                   size_before |-> Cardinality(DOMAIN history),
                   seen_before |-> NormalizeUrl(url) \in tracked]
    /\ history' = SaveCurrentMetadata(history, current_meta)
    /\ order' = SaveOrder(history, order, current_meta)
    /\ top' = WithKey(top, "metadata_history")
    /\ res' = Returned("detect", TRUE)
    /\ tracked' = tracked \cup {NormalizeUrl(url)}
    /\ calls' = calls + 1
    /\ UNCHANGED <<settings, cur, prev, out, nurl, nout, file, svcVars>>

Next == \E url \in StoreUrls : \E current_meta \in StoreMetas(url) : Detect(url, current_meta)

Spec == Init /\ [][Next]_vars

(***************************************************************************)
(* SpecDiff: the differencer and the stealth heuristics on bounded inputs. *)
(***************************************************************************)
DiffSettings ==
    {[DefaultSettings EXCEPT !.content_size_threshold = t] :
        t \in {1, DefaultContentSizeThreshold}}

HeaderChoices ==
    {EmptyDict,
     [x \in {"Last-Modified"} |-> "Mon"],
     [x \in {"last-modified"} |-> "Tue"]}

ContentChoices ==
    {[BaseContent EXCEPT !.word_count = w, !.version_indicators = v] :
        w \in {850, 1000, 1049, 1050, 1100, 1101, 1150},
        v \in {<<"v1.0">>, <<"v1.0", "v1.0">>, <<"v2.0">>}}

DiffCurrents ==
    {Meta(UrlPlain, Some(UrlPlain), length, headers, html) :
        length \in {0, 1, 2, 1000, 1001, 1002},
        headers \in HeaderChoices,
        html \in {None} \cup {Some(Html(Some("Usage Policy"), None, c)) : c \in ContentChoices}}

\* previous snapshots are what _save_current_metadata wrote for an earlier fetch
DiffPrevious ==
    {SerializeMetadata(Meta(UrlPlain, Some(UrlPlain), length, headers, html)) :
        length \in {0, 1, 1001},
        headers \in {EmptyDict, [x \in {"Last-Modified"} |-> "Mon"]},
        html \in {None, Some(Html(Some("Usage Policy"), None, BaseContent))}}

InitDiff ==
    /\ IdleFile
    /\ IdleService
    /\ history = EmptyDict /\ order = <<>> /\ calls = 0 /\ last = NoCall /\ tracked = {}
    /\ nurl = EmptyUrl /\ nout = [op |-> "none"]
    /\ settings \in DiffSettings
    /\ cur \in DiffCurrents
    /\ prev \in DiffPrevious
    /\ out = [op |-> "none"]

ApplyHttp ==
    /\ out' = [op |-> "http", result |-> DetectHttpChanges(cur, prev, settings)]
    /\ UNCHANGED <<history, order, calls, last, tracked, settings, cur, prev, nurl, nout, fileVars, svcVars>>

ApplyStealth ==
    /\ out' = [op |-> "stealth", result |-> DetectStealthUpdates(cur, prev)]
    /\ UNCHANGED <<history, order, calls, last, tracked, settings, cur, prev, nurl, nout, fileVars, svcVars>>

NextDiff == ApplyHttp \/ ApplyStealth

SpecDiff == InitDiff /\ [][NextDiff]_vars

(***************************************************************************)
(* SpecHeaders: _detect_http_changes on header mappings that differ in     *)
(* values, in the case of their keys, and in headers outside the compared  *)
(* subset.                                                                 *)
(***************************************************************************)
\* the mapping holding the <<key, value>> pairs of pairs
HeaderDict(pairs) ==
    [k \in {pr[1] : pr \in pairs} |-> (CHOOSE pr \in pairs : pr[1] = k)[2]]

\* the pairs a response may carry for one header: none, or one pair
OneHeader(keys, values) == {{}} \cup {{<<k, v>>} : k \in keys, v \in values}

CurrentHeaders ==
    {HeaderDict(lm \cup etag \cup server \cup cache) :
        lm \in OneHeader({"Last-Modified"}, {"Mon", "Tue"}),
        etag \in OneHeader({"ETag", "etag"}, {"abc", "xyz"}),
        server \in OneHeader({"Server"}, {"nginx", "apache"}),
        cache \in OneHeader({"Cache-Control"}, {"no-cache"})}

\* the headers of a stored snapshot: lower-case keys when this program saved
\* it, keys as received when an earlier version did
PreviousHeaders ==
    {HeaderDict(lm \cup etag \cup server) :
        lm \in OneHeader({"last-modified"}, {"Mon"}),
        etag \in OneHeader({"ETag", "etag"}, {"abc"}),
        server \in OneHeader({"server"}, {"nginx"})}

InitHeaders ==
    /\ IdleFile
    /\ IdleService
    /\ history = EmptyDict /\ order = <<>> /\ calls = 0 /\ last = NoCall /\ tracked = {}
    /\ nurl = EmptyUrl /\ nout = [op |-> "none"]
    /\ settings = DefaultSettings
    /\ \E headers \in CurrentHeaders : cur = Meta(UrlPlain, Some(UrlPlain), 0, headers, None)
    /\ \E headers \in PreviousHeaders :
          prev = [SerializeMetadata(Meta(UrlPlain, Some(UrlPlain), 0, EmptyDict, None))
                     EXCEPT !["headers"] = headers]
    /\ out = [op |-> "none"]

NextHeaders == ApplyHttp

SpecHeaders == InitHeaders /\ [][NextHeaders]_vars

(***************************************************************************)
(* SpecPolicy: detect_metadata_changes on snapshots that differ in title,  *)
(* version metadata, keyword counts and legal language.                    *)
(***************************************************************************)
HtmlVersion(title, version, content) ==
    [Html(title, None, content) EXCEPT !.other_metadata = version]

PolicyVersions == {EmptyDict, [x \in {"version"} |-> "1.0"], [x \in {"version"} |-> "2.0"]}

PolicyContents ==
    {[BaseContent EXCEPT !.privacy_keyword_count = k, !.has_legal_language = l,
                         !.version_indicators = v] :
        k \in {3, 5, 6}, l \in BOOLEAN, v \in {<<"v1.0">>, <<"v2.0">>}}

PolicyCurrents ==
    {Meta(UrlPlain, Some(UrlPlain), 0, EmptyDict, html) :
        html \in {None} \cup
                 {Some(HtmlVersion(Some(t), v, c)) :
                    t \in {"Usage Policy", "Usage Policy v2"},
                    v \in PolicyVersions, c \in PolicyContents}}

\* what _get_previous_metadata resolved: nothing, or a snapshot saved earlier
PolicyPrevious ==
    {None} \cup
    {Some(SerializeMetadata(Meta(UrlPlain, Some(UrlPlain), 0, EmptyDict, html))) :
        html \in {None} \cup
                 {Some(HtmlVersion(Some("Usage Policy"), v, BaseContent)) :
                    v \in {EmptyDict, [x \in {"version"} |-> "1.0"]}}}

InitPolicy ==
    /\ IdleFile
    /\ IdleService
    /\ history = EmptyDict /\ order = <<>> /\ calls = 0 /\ last = NoCall /\ tracked = {}
    /\ nurl = EmptyUrl /\ nout = [op |-> "none"]
    /\ settings = DefaultSettings
    /\ cur \in PolicyCurrents
    /\ prev \in PolicyPrevious
    /\ out = [op |-> "none"]

\* the list detect_metadata_changes returns once the previous snapshot is
\* resolved
ApplyDetect ==
    /\ out' = [op |-> "detect",
               result |-> IF prev = None THEN <<FirstDetection>>
                          ELSE DetectChanges(cur, prev[1], settings)]
    /\ UNCHANGED <<history, order, calls, last, tracked, settings, cur, prev, nurl, nout, fileVars, svcVars>>

NextPolicy == ApplyDetect

SpecPolicy == InitPolicy /\ [][NextPolicy]_vars

(***************************************************************************)
(* SpecCompose: detect_metadata_changes on snapshots that differ at the    *)
(* HTTP level, the HTML level and the policy level, with and without HTML  *)
(* metadata on either side.                                                *)
(***************************************************************************)
ComposeCurrents ==
    {Meta(UrlPlain, Some(UrlPlain), length, headers, html) :
        length \in {0, 2000},
        headers \in {EmptyDict, [x \in {"ETag"} |-> "abc"]},
        html \in {None} \cup
                 {Some(HtmlVersion(Some(t), v, c)) :
                    t \in {"Usage Policy", "Usage Policy v2"},
                    v \in {EmptyDict, [x \in {"version"} |-> "2.0"]},
                    c \in {BaseContent, [BaseContent EXCEPT !.privacy_keyword_count = 6]}}}

\* what _get_previous_metadata resolved: nothing, or a snapshot saved earlier
ComposePrevious ==
    {None} \cup
    {Some(SerializeMetadata(Meta(UrlPlain, Some(UrlPlain), 0, EmptyDict, html))) :
        html \in {None, Some(HtmlVersion(Some("Usage Policy"), EmptyDict, BaseContent))}}

InitCompose ==
    /\ IdleFile
    /\ IdleService
    /\ history = EmptyDict /\ order = <<>> /\ calls = 0 /\ last = NoCall /\ tracked = {}
    /\ nurl = EmptyUrl /\ nout = [op |-> "none"]
    /\ settings = DefaultSettings
    /\ cur \in ComposeCurrents
    /\ prev \in ComposePrevious
    /\ out = [op |-> "none"]

NextCompose == ApplyDetect

SpecCompose == InitCompose /\ [][NextCompose]_vars

(***************************************************************************)
(* SpecLookup: _get_previous_metadata on the stores that up to MaxEntries  *)
(* calls of _save_current_metadata leave behind.                           *)
(***************************************************************************)
UrlWww == Url("http", <<"www.", "example.com">>, <<"/", "path">>, "", "")

LookupUrls == {UrlPlain, UrlHttps, UrlQuery, UrlOther, UrlWww}

LookupMetas ==
    {Meta(url, final, 0, EmptyDict, html) :
        url \in {UrlPlain, UrlHttps, UrlOther},
        final \in {None, Some(UrlPlain), Some(UrlOther)},
        html \in {None, Some(Html(Some("Usage Policy"), Some(UrlPlain), BaseContent))}}

\* the mapping and its insertion order after saving the metadata of metas in
\* turn
RECURSIVE SaveAll(_)
SaveAll(metas) ==
    IF metas = <<>> THEN [h |-> EmptyDict, ord |-> <<>>]
    ELSE LET before == SaveAll(SubSeq(metas, 1, Len(metas) - 1))
             metadata == metas[Len(metas)]
         IN [h |-> SaveCurrentMetadata(before.h, metadata),
             ord |-> SaveOrder(before.h, before.ord, metadata)]

LookupStores ==
    {SaveAll(metas) : metas \in UNION {[1..n -> LookupMetas] : n \in 0..MaxEntries}}

InitLookup ==
    /\ IdleFile
    /\ IdleService
    /\ calls = 0 /\ last = NoCall /\ tracked = {}
    /\ settings = DefaultSettings
    /\ cur = None /\ prev = None /\ out = [op |-> "none"]
    /\ nout = [op |-> "none"]
    /\ \E store \in LookupStores : history = store.h /\ order = store.ord
    /\ nurl \in LookupUrls

\* self._get_previous_metadata(url)
ApplyLookup ==
    /\ \E previous_meta \in GetPreviousMetadata(history, order, nurl) :
          out' = [op |-> "lookup", result |-> previous_meta]
    /\ UNCHANGED <<history, order, calls, last, tracked, settings, cur, prev, nurl, nout,
                   fileVars, svcVars>>

NextLookup == ApplyLookup

SpecLookup == InitLookup /\ [][NextLookup]_vars

(***************************************************************************)
(* SpecAbsent: detect_metadata_changes against previous snapshots loaded   *)
(* from a history file in which compared fields are absent, with current   *)
(* metadata whose fields are empty.                                        *)
(***************************************************************************)
\* a content analysis of an empty page
ZeroContent ==
    [word_count |-> 0,
     heading_structure |-> EmptyDict,
     privacy_keyword_count |-> 0,
     terms_keyword_count |-> 0,
     liability_keyword_count |-> 0,
     termination_keyword_count |-> 0,
     rights_keyword_count |-> 0,
     governance_keyword_count |-> 0,
     version_indicators |-> <<>>,
     has_legal_language |-> FALSE]

\* the mapping d without the keys of absent
Without(d, absent) == [k \in DOMAIN d \ absent |-> d[k]]

\* _extract_title gives None without a <title> tag and '' for an empty one;
\* status_code is None on the metadata of a failed request
ZeroCurrents ==
    {[Meta(UrlPlain, Some(UrlPlain), 0, EmptyDict,
           Some([Html(title, None, ZeroContent) EXCEPT !.meta_description = description]))
        EXCEPT !.status_code = status] :
        title \in {None, Some(""), Some("Usage Policy")},
        description \in {None, Some("")},
        status \in {None, Some(200)}}

AbsentTopFields == {"status_code", "content_length", "headers"}
AbsentHtmlFields == {"title", "meta_description", "og_metadata", "other_metadata"}

\* a snapshot saved for an earlier fetch, read back from a file that lacks
\* some of its fields
AbsentPrevious ==
    {Some([Without(SerializeMetadata(Meta(UrlPlain, Some(UrlPlain), 0, EmptyDict,
                       Some(Html(Some("Usage Policy"), None, ZeroContent)))), top_absent)
            EXCEPT !["html_metadata"] =
                Without(IF content = "absent" THEN Without(@, {"content_analysis"})
                        ELSE IF content = "empty"
                             THEN [@ EXCEPT !["content_analysis"] = EmptyDict]
                        ELSE @, html_absent)]) :
        top_absent \in SUBSET AbsentTopFields,
        html_absent \in SUBSET AbsentHtmlFields,
        content \in {"full", "empty", "absent"}}

InitAbsent ==
    /\ IdleFile
    /\ IdleService
    /\ history = EmptyDict /\ order = <<>> /\ calls = 0 /\ last = NoCall /\ tracked = {}
    /\ nurl = EmptyUrl /\ nout = [op |-> "none"]
    /\ settings = DefaultSettings
    /\ cur \in ZeroCurrents
    /\ prev \in AbsentPrevious
    /\ out = [op |-> "none"]

NextAbsent == ApplyDetect

SpecAbsent == InitAbsent /\ [][NextAbsent]_vars

(***************************************************************************)
(* SpecE2E: one tracked page, https://a.com, fetched several times; the    *)
(* caller runs detect_stealth_updates against the stored snapshot and      *)
(* detect_metadata_changes.                                                *)
(***************************************************************************)
UrlA == Url("https", <<"a.com">>, <<>>, "", "")

E2EMeta(title, words, versions) ==
    Meta(UrlA, Some(UrlA), 0, EmptyDict,
         Some(Html(Some(title), None,
                   [word_count |-> words, version_indicators |-> versions])))

E2EMetas ==
    {E2EMeta(t, w, v) :
        t \in {"Usage Policy", "Usage Policy v2"},
        w \in {500, 520, 560, 700},
        v \in {<<"v1.0">>, <<"v2.0">>}}

\* a variant of the stealth check that stores the current metadata as
\* detect_metadata_changes does
StealthOnStored_Saves(url, current_meta) ==
    /\ \E previous_meta \in GetPreviousMetadata(history, order, url) :
          /\ previous_meta # None
          /\ cur' = current_meta
          /\ prev' = previous_meta[1]
          /\ out' = [op |-> "stealth",
                     result |-> DetectStealthUpdates(current_meta, previous_meta[1])]
    /\ history' = SaveCurrentMetadata(history, current_meta)
    /\ order' = SaveOrder(history, order, current_meta)
    /\ UNCHANGED <<calls, last, tracked, settings, nurl, nout, fileVars, svcVars>>

\* detect_stealth_updates(current_meta, previous_meta) with the snapshot the
\* store resolves for url
StealthOnStored(url, current_meta) ==
    /\ \E previous_meta \in GetPreviousMetadata(history, order, url) :
          /\ previous_meta # None
          /\ cur' = current_meta
          /\ prev' = previous_meta[1]
          /\ out' = [op |-> "stealth",
                     result |-> DetectStealthUpdates(current_meta, previous_meta[1])]
    /\ UNCHANGED <<history, order, calls, last, tracked, settings, nurl, nout, fileVars, svcVars>>

NextE2E ==
    \E current_meta \in E2EMetas :
        \/ Detect(UrlA, current_meta)
        \/ StealthOnStored(UrlA, current_meta)

SpecE2E == Init /\ [][NextE2E]_vars

(***************************************************************************)
(* SpecFile: a ChangeDetector constructed over a history file of any       *)
(* content, then detect_metadata_changes, save_history and is_first_run.   *)
(***************************************************************************)
SavedSnapshot == SerializeMetadata(E2EMeta("Usage Policy", 500, <<"v1.0">>))

\* what the file may hold when the program starts
FileContents ==
    {NoFile,
     Text(<<>>),
     Text(<<"{", "not json">>),
     Text(<<"\\xff">>),
     Text(<<"null">>),
     Text(<<"[", "]">>),
     Text(<<"{", "}">>),
     Text(<<"  ", "{", "}", "\n">>),
     Text(<<"{", Quote("metadata_history"), ":", " ", "{", "}", "}">>),
     JsonDump(FreshStore, [k \in {UrlA} |-> SavedSnapshot], <<UrlA>>)}

FileMetas == {E2EMeta("Usage Policy", 500, <<"v1.0">>), E2EMeta("Usage Policy v2", 520, <<"v1.0">>)}

InitFile ==
    /\ history = EmptyDict /\ order = <<>> /\ calls = 0 /\ last = NoCall /\ tracked = {}
    /\ settings = DefaultSettings
    /\ cur = None /\ prev = None /\ out = [op |-> "none"]
    /\ nurl = EmptyUrl /\ nout = [op |-> "none"]
    /\ file \in FileContents
    /\ top = NotLoaded
    /\ res = Returned("none", FALSE)
    /\ IdleService

\* ChangeDetector.__init__: _load_history
Construct ==
    /\ top.type = "unloaded"
    /\ LET loaded == IF file.exists THEN JsonLoad(file) ELSE [raised |-> "missing"]
       IN  CASE loaded.raised = "none" ->
                  /\ top' = loaded.value
                  /\ history' = IF "metadata_history" \in Range(loaded.value.keys)
                                THEN file.entries ELSE EmptyDict
                  /\ order' = IF "metadata_history" \in Range(loaded.value.keys)
                              THEN file.eorder ELSE <<>>
                  /\ res' = Returned("init", TRUE)
             [] loaded.raised \in {"missing", "JSONDecodeError"} ->
                  /\ top' = FreshStore
                  /\ history' = EmptyDict
                  /\ order' = <<>>
                  /\ res' = Returned("init", TRUE)
             [] OTHER ->
                  /\ res' = Raised("init", loaded.raised)
                  /\ UNCHANGED <<top, history, order>>
    /\ UNCHANGED <<calls, last, tracked, settings, cur, prev, out, nurl, nout, file,
                   svcVars>>

\* detect_metadata_changes on a store that is not a dict: self.history.get
\* raises in _get_previous_metadata
DetectRaises(url) ==
    /\ calls < MaxCalls
    /\ top.type \in {"null", "list"}
    /\ res' = Raised("detect", "AttributeError")
    /\ calls' = calls + 1
    /\ UNCHANGED <<history, order, last, tracked, settings, cur, prev, out, nurl, nout,
                   file, top, svcVars>>

\* ChangeDetector.save_history
SaveHistory ==
    /\ top.type # "unloaded"
    /\ file' = JsonDump(top, history, order)
    /\ res' = Returned("save", TRUE)
    /\ UNCHANGED <<history, order, calls, last, tracked, settings, cur, prev, out,
                   nurl, nout, top, svcVars>>

\* ChangeDetector.is_first_run
IsFirstRun ==
    /\ top.type # "unloaded"
    /\ res' = Returned("is_first_run", FirstRunValue(file))
    /\ UNCHANGED <<history, order, calls, last, tracked, settings, cur, prev, out,
                   nurl, nout, file, top, svcVars>>

NextFile ==
    \/ Construct
    \/ \E current_meta \in FileMetas : Detect(UrlA, current_meta)
    \/ DetectRaises(UrlA)
    \/ SaveHistory
    \/ IsFirstRun

SpecFile == InitFile /\ [][NextFile]_vars

(***************************************************************************)
(* SpecFrame: the differencer methods and detect_stealth_updates applied   *)
(* to the snapshot the store holds for https://a.com, between              *)
(* detect_metadata_changes and save_history calls.                         *)
(***************************************************************************)
FrameMetas == FileMetas \cup {E2EMeta("Usage Policy", 700, <<"v1.0">>)}

\* self._detect_http_changes(url, current_meta, previous_meta)
HttpOnStored(url, current_meta) ==
    /\ \E previous_meta \in GetPreviousMetadata(history, order, url) :
          /\ previous_meta # None
          /\ cur' = current_meta
          /\ prev' = previous_meta[1]
          /\ out' = [op |-> "http",
                     result |-> DetectHttpChanges(current_meta, previous_meta[1], settings)]
    /\ UNCHANGED <<history, order, calls, last, tracked, settings, nurl, nout, fileVars, svcVars>>

\* self._detect_html_metadata_changes(url, current_meta.html_metadata,
\* previous_meta['html_metadata'])
HtmlOnStored(url, current_meta) ==
    /\ \E previous_meta \in GetPreviousMetadata(history, order, url) :
          /\ previous_meta # None
          /\ current_meta.html_metadata # None
          /\ "html_metadata" \in DOMAIN previous_meta[1]
          /\ cur' = current_meta
          /\ prev' = previous_meta[1]
          /\ out' = [op |-> "html",
                     result |-> DetectHtmlMetadataChanges(current_meta.html_metadata[1],
                                    previous_meta[1]["html_metadata"], settings)]
    /\ UNCHANGED <<history, order, calls, last, tracked, settings, nurl, nout, fileVars, svcVars>>

\* self._detect_policy_changes(url, current_meta.html_metadata,
\* previous_meta['html_metadata'])
PolicyOnStored(url, current_meta) ==
    /\ \E previous_meta \in GetPreviousMetadata(history, order, url) :
          /\ previous_meta # None
          /\ current_meta.html_metadata # None
          /\ "html_metadata" \in DOMAIN previous_meta[1]
          /\ cur' = current_meta
          /\ prev' = previous_meta[1]
          /\ out' = [op |-> "policy",
                     result |-> DetectPolicyChanges(current_meta.html_metadata[1],
                                    previous_meta[1]["html_metadata"], settings)]
    /\ UNCHANGED <<history, order, calls, last, tracked, settings, nurl, nout, fileVars, svcVars>>

NextFrame ==
    \/ \E current_meta \in FrameMetas :
          \/ Detect(UrlA, current_meta)
          \/ HttpOnStored(UrlA, current_meta)
          \/ HtmlOnStored(UrlA, current_meta)
          \/ PolicyOnStored(UrlA, current_meta)
          \/ StealthOnStored(UrlA, current_meta)
    \/ SaveHistory

SpecFrame == Init /\ [][NextFrame]_vars

(***************************************************************************)
(* SpecFirstRun: MonitoringService._detect_first_run over the history file *)
(* an earlier run left behind, before the ChangeDetector is constructed.   *)
(***************************************************************************)
\* str.lower() on the values of the environment variables
LowerWord(w) ==
    CASE w = "TRUE" -> "true"
      [] w = "False" -> "false"
      [] OTHER -> w

FalseWords == {"false", "0", "no"}
TrueWords == {"true", "1", "yes"}

\* os.getenv(name, ''): '' when the variable is not set
EnvValues == {"", "false", "False", "0", "TRUE", "yes", "maybe"}

\* data/datastore: no directory, no *.json file, a file that is not JSON, a
\* file without watches, a file with watches
Datastores == {"missing", "empty", "corrupt", "no watches", "watches"}

\* MonitoringService._detect_first_run: the value returned
DetectFirstRun(monitor_first_run, first_run_env, datastore, reports, f) ==
    LET loaded == JsonLoad(f) IN
    IF LowerWord(monitor_first_run) \in FalseWords THEN FALSE
    ELSE IF LowerWord(monitor_first_run) \in TrueWords THEN TRUE
    ELSE IF LowerWord(first_run_env) \in FalseWords THEN FALSE
    ELSE IF LowerWord(first_run_env) \in TrueWords THEN TRUE
    ELSE IF datastore = "watches" THEN FALSE
    ELSE IF reports THEN FALSE
    ELSE IF /\ f.exists
            /\ loaded.raised = "none"
            /\ loaded.value.type = "dict"
            /\ "history" \in Range(loaded.value.keys)
         THEN FALSE
    ELSE TRUE

\* MonitoringService.__init__ of the next run calls self._detect_first_run()
DetectFirstRunCall ==
    /\ \E monitor_first_run \in EnvValues, first_run_env \in EnvValues,
          datastore \in Datastores, reports \in BOOLEAN :
          out' = [op |-> "first_run",
                  monitor_first_run |-> monitor_first_run,
                  first_run_env |-> first_run_env,
                  datastore |-> datastore,
                  reports |-> reports,
                  file |-> file,
                  value |-> DetectFirstRun(monitor_first_run, first_run_env, datastore,
                                           reports, file)]
    /\ UNCHANGED <<history, order, calls, last, tracked, settings, cur, prev, nurl, nout,
                   fileVars, svcVars>>

\* the history file at the start of a run: what FileContents lists, or the
\* empty store save_history writes before any detect_metadata_changes call
InitFirstRun ==
    /\ history = EmptyDict /\ order = <<>> /\ calls = 0 /\ last = NoCall /\ tracked = {}
    /\ settings = DefaultSettings
    /\ cur = None /\ prev = None /\ out = [op |-> "none"]
    /\ nurl = EmptyUrl /\ nout = [op |-> "none"]
    /\ file \in FileContents \cup {JsonDump(FreshStore, EmptyDict, <<>>)}
    /\ top = NotLoaded
    /\ res = Returned("none", FALSE)
    /\ IdleService

NextFirstRun == DetectFirstRunCall

SpecFirstRun == InitFirstRun /\ [][NextFirstRun]_vars

(***************************************************************************)
(* SpecSched: a UrlScheduler over two configured URLs while the clock      *)
(* advances.                                                               *)
(***************************************************************************)
UrlB == Url("https", <<"b.org">>, <<>>, "", "")

\* config.url_configs, in the order of the configuration file
ConfigUrls == <<UrlA, UrlB>>

\* central_check_interval (check_interval of a URL in AISafetyMonitor)
Intervals == {1, 2}

InitSched ==
    /\ history = EmptyDict /\ order = <<>> /\ calls = 0 /\ last = NoCall /\ tracked = {}
    /\ settings = DefaultSettings
    /\ cur = None /\ prev = None
    /\ nurl = EmptyUrl /\ nout = [op |-> "none"]
    /\ IdleFile
    /\ svc = IdleCycle /\ hnd = IdleHandler
    /\ now = 0
    /\ \E interval \in Intervals :
          sched = [interval |-> interval, urls |-> ConfigUrls,
                   schedules |-> InitializeSchedules(ConfigUrls, 0)]
    /\ out = [op |-> "init"]

\* time passes
Tick ==
    /\ now < MaxTime
    /\ now' = now + 1
    /\ UNCHANGED <<history, order, calls, last, tracked, settings, cur, prev, out, nurl,
                   nout, fileVars, sched, svc, hnd>>

\* UrlScheduler.get_due_urls()
GetDue ==
    /\ out' = [op |-> "due", t |-> now, schedules |-> sched.schedules,
               result |-> GetDueUrls(sched.schedules, sched.urls, now)]
    /\ UNCHANGED <<history, order, calls, last, tracked, settings, cur, prev, nurl, nout,
                   fileVars, svcVars>>

\* UrlScheduler.update_schedule(url)
Update(url) ==
    /\ sched' = [sched EXCEPT
                    !.schedules = UpdateSchedule(sched.schedules, sched.interval, url, now)]
    /\ out' = [op |-> "update", t |-> now, url |-> url, before |-> sched.schedules]
    /\ UNCHANGED <<history, order, calls, last, tracked, settings, cur, prev, nurl, nout,
                   fileVars, now, svc, hnd>>

NextSched ==
    \/ Tick
    \/ GetDue
    \/ \E url \in Range(ConfigUrls) \cup {UrlPlain} : Update(url)

SpecSched == InitSched /\ [][NextSched]_vars

(***************************************************************************)
(* SpecLegacy: AISafetyMonitor.detect_metadata_changes(old_meta, new_meta) *)
(* of src/metadata-monitor/monitor.py on the mappings get_url_metadata     *)
(* builds.  Here URLs are plain strings.                                   *)
(***************************************************************************)
\* AISafetyMonitor.get_url_metadata: a response, or the error mapping
LegacyMetas ==
    {[status_code |-> Some(status), headers |-> headers, final_url |-> final] :
        status \in {200, 404},
        headers \in {EmptyDict,
                     [x \in {"content-type"} |-> "text/html"],
                     [x \in {"content-type"} |-> "application/json"]},
        final \in {"https://example.com", "https://example.com/new"}}
    \cup {[status_code |-> None, error |-> "Connection failed"]}

\* AISafetyMonitor.detect_metadata_changes: the mapping returned, or the
\* exception raised when old_meta is None
LegacyDetectMetadataChanges(old_meta, new_meta) ==
    IF old_meta = None THEN [raised |-> "AttributeError", value |-> EmptyDict]
    ELSE
    LET old == old_meta[1]
        old_status == Get(old, "status_code", None)
        new_status == Get(new_meta, "status_code", None)
        old_type == Get(Get(old, "headers", EmptyDict), "content-type", "")
        new_type == Get(Get(new_meta, "headers", EmptyDict), "content-type", "")
        old_final == Get(old, "final_url", "")
        new_final == Get(new_meta, "final_url", "")
        keys == (IF old_status # new_status THEN {"status"} ELSE {})
                \cup (IF old_type # new_type THEN {"content_type"} ELSE {})
                \cup (IF old_final # new_final THEN {"redirect"} ELSE {})
    IN  [raised |-> "none",
         value |-> [k \in keys |->
                      CASE k = "status" -> <<old_status, new_status>>
                        [] k = "content_type" -> <<old_type, new_type>>
                        [] k = "redirect" -> <<old_final, new_final>>]]

InitLegacy ==
    /\ history = EmptyDict /\ order = <<>> /\ calls = 0 /\ last = NoCall /\ tracked = {}
    /\ settings = DefaultSettings
    /\ nurl = EmptyUrl /\ nout = [op |-> "none"]
    /\ IdleFile
    /\ IdleService
    /\ cur \in LegacyMetas
    /\ prev \in {None} \cup {Some(m) : m \in LegacyMetas}
    /\ out = [op |-> "none"]

ApplyLegacyDetect ==
    /\ out' = [op |-> "legacy", result |-> LegacyDetectMetadataChanges(prev, cur)]
    /\ UNCHANGED <<history, order, calls, last, tracked, settings, cur, prev, nurl, nout,
                   fileVars, svcVars>>

NextLegacy == ApplyLegacyDetect

SpecLegacy == InitLegacy /\ [][NextLegacy]_vars

(***************************************************************************)
(* SpecLegacyCycle: AISafetyMonitor.check_metadata_changes called again    *)
(* and again while time passes.  history is the content of the history     *)
(* file, which the method loads at its start and writes at its end.        *)
(***************************************************************************)
LegacyPage(status) ==
    [status_code |-> Some(status),
     headers |-> [x \in {"content-type"} |-> "text/html"],
     final_url |-> "https://example.com"]

\* what get_url_metadata may return for a due URL
LegacyFetches == {LegacyPage(200), LegacyPage(404)}

LegacyHistories ==
    {EmptyDict, [u \in {UrlA} |-> [metadata |-> LegacyPage(200)]]}

\* history.get(url, {}).get('metadata')
LegacyPrevious(h, url) ==
    IF url \in DOMAIN h THEN GetOpt(h[url], "metadata") ELSE None

\* the loop of check_metadata_changes over the due URLs: one entry for each
\* URL with previous metadata and a non-empty change mapping
RECURSIVE LegacyLoop(_, _, _, _)
LegacyLoop(h, due, metas, k) ==
    IF k > Len(due) THEN <<>>
    ELSE LET previous_meta == LegacyPrevious(h, due[k])
             changes == LegacyDetectMetadataChanges(previous_meta, metas[k]).value
         IN  (IF previous_meta # None /\ changes # EmptyDict
              THEN <<[url |-> due[k], changes |-> changes, metadata |-> metas[k]]>>
              ELSE <<>>)
             \o LegacyLoop(h, due, metas, k + 1)

InitLegacyCycle ==
    /\ order = <<>> /\ calls = 0 /\ last = NoCall /\ tracked = {}
    /\ settings = DefaultSettings
    /\ cur = None /\ prev = None /\ out = [op |-> "none"]
    /\ nurl = EmptyUrl /\ nout = [op |-> "none"]
    /\ IdleFile
    /\ svc = IdleCycle /\ hnd = IdleHandler
    /\ history \in LegacyHistories
    /\ now = 0
    /\ sched = [interval |-> 1, urls |-> ConfigUrls,
                schedules |-> InitializeSchedules(ConfigUrls, 0)]

LegacyTick ==
    /\ now < MaxTime
    /\ now' = now + 1
    /\ UNCHANGED <<history, order, calls, last, tracked, settings, cur, prev, out, nurl,
                   nout, fileVars, sched, svc, hnd>>

\* check_metadata_changes after its loop.  The statements under 'Always
\* update the history' stand after the for loop, so they run once, with the
\* url and current_meta of the last due URL, and under 'if url not in history'.
LegacyStored(h, due) == due # <<>> /\ due[Len(due)] \notin DOMAIN h

LegacyHistoryAfter(h, due, metas) ==
    IF LegacyStored(h, due)
    THEN [u \in DOMAIN h \cup {due[Len(due)]} |->
            IF u = due[Len(due)] THEN [metadata |-> metas[Len(due)]] ELSE h[u]]
    ELSE h

LegacyScheduleAfter(s, h, due, t) ==
    IF LegacyStored(h, due)
    THEN [s EXCEPT !.schedules = UpdateSchedule(s.schedules, s.interval, due[Len(due)], t)]
    ELSE s

\* AISafetyMonitor.check_metadata_changes
LegacyCheckMetadataChanges ==
    LET due == GetDueUrls(sched.schedules, sched.urls, now) IN
    \E metas \in [1..Len(due) -> LegacyFetches] :
        /\ out' = [op |-> "legacy_check",
                   due |-> due,
                   metas |-> metas,
                   result |-> LegacyLoop(history, due, metas, 1),
                   before |-> history,
                   repeat |-> /\ out.op = "legacy_check"
                              /\ out.due = due /\ out.metas = metas
                              /\ out.result # <<>>]
        /\ history' = LegacyHistoryAfter(history, due, metas)
        /\ sched' = LegacyScheduleAfter(sched, history, due, now)
        /\ UNCHANGED <<order, calls, last, tracked, settings, cur, prev, nurl, nout,
                       fileVars, now, svc, hnd>>

NextLegacyCycle == LegacyTick \/ LegacyCheckMetadataChanges

SpecLegacyCycle == InitLegacyCycle /\ [][NextLegacyCycle]_vars

(***************************************************************************)
(* SpecService: the monitoring cycles of a MonitoringService (run_cycle:   *)
(* the changedetection.io content check, then the metadata check over the  *)
(* due URLs, each with a save) while time passes between the cycles.       *)
(***************************************************************************)
\* config.UrlConfig: url, type and priority, no check_interval
UrlConfigs ==
    [i \in 1..Len(ConfigUrls) |->
        [url |-> ConfigUrls[i], type |-> "policy", priority |-> "medium"]]

\* what HttpMonitor.get_url_metadata returns for url: a parsed page, or the
\* error metadata of a failed request (error set, final_url = url)
FetchedPage(url, title) ==
    [E2EMeta(title, 500, <<"v1.0">>) EXCEPT !.url = url, !.final_url = Some(url)]

FetchError(url) ==
    [Meta(url, Some(url), 0, EmptyDict, None) EXCEPT !.status_code = None]

\* the titles the page at url shows over time
Titles(url) == IF url = UrlA THEN {"Usage Policy", "Usage Policy v2"} ELSE {"Usage Policy"}

FetchResults(url) == {FetchedPage(url, t) : t \in Titles(url)} \cup {FetchError(url)}

\* the URLs changedetection.io holds a watch for
WatchedUrls == {UrlA}

Title(meta) ==
    IF meta.html_metadata = None THEN "" ELSE meta.html_metadata[1].title[1]

\* change_detector.history.setdefault(url, {}) / history[url] = {...}: url
\* becomes a key of the top-level dict
WithWatch(t, urls) ==
    IF urls = {} THEN t
    ELSE [WithKey(t, "<watch>") EXCEPT !.watch = @ \cup urls]

\* a variant of _sync_watches that finds a check_interval on every URL config
SyncWatches_WithInterval(configs, existing, accepted, t) ==
    [raised |-> "none",
     top |-> WithWatch(t, ({configs[i].url : i \in 1..Len(configs)}
                               \cap (accepted \ existing)) \ t.watch)]

\* ChangedetectionService._sync_watches with _create_new_watch: existing are
\* the URLs changedetection.io already watches, accepted the URLs whose POST
\* it answers with 200 or 201.  Reading url_config.check_interval raises on
\* the first URL config.
SyncWatches(configs, existing, accepted, t) ==
    IF configs # <<>> /\ "check_interval" \notin DOMAIN configs[1]
    THEN [raised |-> "AttributeError", top |-> t]
    ELSE [raised |-> "none",
          top |-> WithWatch(t, ({configs[i].url : i \in 1..Len(configs)}
                                    \cap (accepted \ existing)) \ t.watch)]

\* a variant of the loop of _check_metadata_changes that returns after the
\* last URL without saving
AfterUrl_NoSave(s) ==
    IF s.i < Len(s.due)
    THEN [s EXCEPT !.i = @ + 1, !.pc = "fetch", !.meta = None]
    ELSE [s EXCEPT !.pc = "idle", !.meta = None]

\* _check_metadata_changes after one URL, processed or failed: the next due
\* URL, or save_history after the last
AfterUrl(s) ==
    IF s.i < Len(s.due)
    THEN [s EXCEPT !.i = @ + 1, !.pc = "fetch", !.meta = None]
    ELSE [s EXCEPT !.pc = "saving", !.after = "idle", !.meta = None]

InitService ==
    /\ history = EmptyDict /\ order = <<>> /\ calls = 0 /\ last = NoCall /\ tracked = {}
    /\ settings = DefaultSettings
    /\ cur = None /\ prev = None /\ out = [op |-> "none"]
    /\ nurl = EmptyUrl /\ nout = [op |-> "none"]
    /\ IdleFile
    /\ now = 0
    /\ sched = [interval |-> 1, urls |-> ConfigUrls,
                schedules |-> InitializeSchedules(ConfigUrls, 0)]
    /\ svc = [pc |-> "idle", after |-> "idle", cycles |-> 0, due |-> <<>>, i |-> 0,
              meta |-> None, saves |-> 0, ndue |-> 0, raised |-> FALSE,
              lastgood |-> [u \in Range(ConfigUrls) |-> ""], goodbefore |-> "",
              log |-> <<>>, content |-> {}, found |-> <<>>]
    /\ hnd = [requests |-> 0, raised |-> "none", during |-> "none", wrote |-> FALSE]

\* time passes between monitoring cycles
TickIdle ==
    /\ svc.pc = "idle"
    /\ now < MaxTime
    /\ now' = now + 1
    /\ UNCHANGED <<history, order, calls, last, tracked, settings, cur, prev, out, nurl,
                   nout, fileVars, sched, svc, hnd>>

\* run_cycle step 1, ChangedetectionService.check_content_changes: nothing
\* when the service is not available; else every watch that counts as
\* changed gets its last_content_check written to the store, and the store
\* is saved
ContentCheck ==
    /\ svc.pc = "idle"
    /\ svc.cycles < MaxCycles
    /\ \E available \in BOOLEAN, changed \in SUBSET WatchedUrls :
          IF available
          THEN /\ top' = WithWatch(top, changed)
               /\ svc' = [svc EXCEPT !.pc = "saving", !.after = "meta", !.cycles = @ + 1,
                                     !.content = changed]
          ELSE /\ top' = top
               /\ svc' = [svc EXCEPT !.pc = "meta", !.cycles = @ + 1, !.content = {}]
    /\ UNCHANGED <<history, order, calls, last, tracked, settings, cur, prev, out, nurl,
                   nout, file, res, sched, now, hnd>>

\* _check_metadata_changes: the due URLs; nothing more when there are none
StartMetadataCheck ==
    /\ svc.pc = "meta"
    /\ LET due == GetDueUrls(sched.schedules, sched.urls, now) IN
       svc' = [svc EXCEPT !.pc = IF due = <<>> THEN "idle" ELSE "fetch",
                          !.due = due, !.i = IF due = <<>> THEN 0 ELSE 1,
                          !.ndue = Len(due), !.saves = 0, !.raised = FALSE,
                          !.log = <<>>, !.found = <<>>]
    /\ UNCHANGED <<history, order, calls, last, tracked, settings, cur, prev, out, nurl,
                   nout, fileVars, sched, now, hnd>>

\* http_monitor.get_url_metadata(url) returns
Fetch ==
    /\ svc.pc = "fetch"
    /\ \E current_meta \in FetchResults(svc.due[svc.i]) :
          svc' = [svc EXCEPT !.pc = "detect", !.meta = Some(current_meta)]
    /\ UNCHANGED <<history, order, calls, last, tracked, settings, cur, prev, out, nurl,
                   nout, fileVars, sched, now, hnd>>

\* processing the URL raises: the except branch logs and goes on
FetchRaises ==
    /\ svc.pc = "fetch"
    /\ svc' = [AfterUrl(svc) EXCEPT
                  !.raised = TRUE,
                  !.log = Append(@, [url |-> svc.due[svc.i], ok |-> FALSE])]
    /\ UNCHANGED <<history, order, calls, last, tracked, settings, cur, prev, out, nurl,
                   nout, fileVars, sched, now, hnd>>

\* change_detector.detect_metadata_changes(url, current_meta), then
\* scheduler.update_schedule(url)
CycleDetect ==
    /\ svc.pc = "detect"
    /\ top.type = "dict"
    /\ LET url == svc.due[svc.i]
           current_meta == svc.meta[1]
           good == current_meta.status_code # None
       IN  /\ \E previous_meta \in GetPreviousMetadata(history, order, url) :
                 last' = [called |-> TRUE,
                          url |-> url,
                          meta |-> current_meta,
                          previous |-> previous_meta,
                          changes |-> IF previous_meta = None
                                      THEN <<FirstDetection>>
                                      ELSE DetectChanges(current_meta, previous_meta[1],
                                                         settings),
                          repeat |-> last.called /\ last.url = url
                                     /\ last.meta = current_meta,
                          size_before |-> Cardinality(DOMAIN history),
                          seen_before |-> NormalizeUrl(url) \in tracked]
           /\ history' = SaveCurrentMetadata(history, current_meta)
           /\ order' = SaveOrder(history, order, current_meta)
           /\ top' = WithKey(top, "metadata_history")
           /\ res' = Returned("detect", TRUE)
           /\ tracked' = tracked \cup {NormalizeUrl(url)}
           /\ sched' = [sched EXCEPT
                           !.schedules = UpdateSchedule(sched.schedules, sched.interval,
                                                        url, now)]
           /\ svc' = [AfterUrl(svc) EXCEPT
                         !.log = Append(@, [url |-> url, ok |-> TRUE]),
                         !.found = IF last'.changes # <<>>
                                   THEN Append(@, [url |-> url, changes |-> last'.changes])
                                   ELSE @,
                         !.goodbefore = IF good THEN svc.lastgood[url] ELSE "",
                         !.lastgood = IF good
                                      THEN [svc.lastgood EXCEPT ![url] = Title(current_meta)]
                                      ELSE svc.lastgood]
    /\ UNCHANGED <<calls, settings, cur, prev, out, nurl, nout, file, now, hnd>>

\* save_history: json.dump has walked the store and written the file
EndSave ==
    /\ svc.pc = "saving"
    /\ file' = JsonDump(top, history, order)
    /\ res' = Returned("save", TRUE)
    /\ svc' = [svc EXCEPT !.pc = svc.after,
                          !.saves = IF svc.after = "idle" THEN @ + 1 ELSE @]
    /\ UNCHANGED <<history, order, calls, last, tracked, settings, cur, prev, out, nurl,
                   nout, top, sched, now, hnd>>

\* POST /api/setup-watches on the event-loop thread:
\* changedetection_service.setup_watches(change_detector), which logs what
\* _sync_watches raises
SetupWatchesHandler ==
    /\ hnd.requests < MaxRequests
    /\ \E existing \in SUBSET WatchedUrls, accepted \in SUBSET Range(ConfigUrls) :
          LET done == SyncWatches(UrlConfigs, existing, accepted, top) IN
          /\ top' = done.top
          /\ hnd' = [requests |-> hnd.requests + 1, raised |-> done.raised,
                     during |-> svc.pc, wrote |-> done.top # top]
    /\ UNCHANGED <<history, order, calls, last, tracked, settings, cur, prev, out, nurl,
                   nout, file, res, sched, now, svc>>

\* the steps of run_cycle on the executor thread
RunCycle ==
    \/ ContentCheck
    \/ StartMetadataCheck
    \/ Fetch
    \/ FetchRaises
    \/ CycleDetect
    \/ EndSave

NextService == TickIdle \/ RunCycle

SpecService == InitService /\ [][NextService]_vars

(***************************************************************************)
(* SpecApp: the cycles of POST /check-now on the executor thread while the *)
(* event-loop thread serves POST /api/setup-watches.                       *)
(***************************************************************************)
NextApp == RunCycle \/ SetupWatchesHandler

SpecApp == InitService /\ [][NextApp]_vars

(***************************************************************************)
(* SpecReport: whole monitoring cycles with their reporting steps, of the  *)
(* MonitoringService (run_cycle, in the steps of SpecService followed by   *)
(* the sheets logging and the reports) and of the AISafetyMonitor          *)
(* (run_monitoring_cycle, in one step).                                    *)
(***************************************************************************)
\* the orders in which a collection may list the members of S
SeqsOf(S) == {s \in [1..Cardinality(S) -> S] : Range(s) = S}

\* what one call of the sheets reporter may do
SheetsOutcomes == {"true", "false", "raises"}

\* a variant of _log_changes_to_sheets that does not count a call that raises
LogChangesToSheets_DropRaised(changes, outcomes) ==
    [calls |-> changes,
     successful |-> Cardinality({k \in 1..Len(changes) : outcomes[k] = "true"}),
     failed |-> Cardinality({k \in 1..Len(changes) : outcomes[k] = "false"})]

\* MonitoringService._log_changes_to_sheets: sheets_reporter.log_change for
\* each change in turn; a call that returns False or raises counts as failed
LogChangesToSheets(changes, outcomes) ==
    [calls |-> changes,
     successful |-> Cardinality({k \in 1..Len(changes) : outcomes[k] = "true"}),
     failed |-> Cardinality({k \in 1..Len(changes) : outcomes[k] # "true"})]

\* the content changes of the cycle, one DetectedChange for each changed watch
ContentChanges(urls) ==
    [k \in 1..Len(urls) |-> [url |-> urls[k], changes |-> <<"content_change">>]]

\* the cycle that last ran has logged and reported
CycleReported ==
    /\ svc # IdleCycle
    /\ svc.cycles = 0 \/ (out.op = "run_cycle" /\ out.cycle = svc.cycles)

\* run_cycle steps 3 and 4 and the final statistics, after the two checks
\* have returned
ReportCycle ==
    /\ svc.pc = "idle"
    /\ ~CycleReported
    /\ \E urls \in SeqsOf(svc.content) :
          LET content_changes == ContentChanges(urls)
              all_changes == content_changes \o svc.found
          IN  \E outcomes \in [1..Len(all_changes) -> SheetsOutcomes] :
                 LET sheets_results ==
                         IF all_changes # <<>>
                         THEN LogChangesToSheets(all_changes, outcomes)
                         ELSE [calls |-> <<>>, successful |-> 0, failed |-> 0]
                 IN  out' = [op |-> "run_cycle",
                             cycle |-> svc.cycles,
                             content |-> content_changes,
                             metadata |-> svc.found,
                             sheets |-> sheets_results.calls,
                             logged |-> sheets_results.successful,
                             failed |-> sheets_results.failed,
                             reports |-> <<all_changes>>,
                             changes_detected |-> Len(all_changes),
                             errors |-> sheets_results.failed]
    /\ UNCHANGED <<history, order, calls, last, tracked, settings, cur, prev, nurl,
                   nout, fileVars, sched, now, svc, hnd>>

\* history[url]['last_content_check'] = now, on a new entry when the URL has
\* none
LegacyContentChecked(h, url) ==
    LET e == IF url \in DOMAIN h THEN h[url] ELSE EmptyDict IN
    [u \in DOMAIN h \cup {url} |->
        IF u = url
        THEN [k \in DOMAIN e \cup {"last_content_check"} |->
                 IF k = "last_content_check" THEN [checked |-> TRUE] ELSE e[k]]
        ELSE h[u]]

\* the loop of check_changedetection_content_changes over the watches: a
\* change for a watch never checked before, and for one changed since its
\* last check
RECURSIVE LegacyContentLoop(_, _, _, _)
LegacyContentLoop(h, watches, changed, k) ==
    IF k > Len(watches) THEN [changes |-> <<>>, history |-> h]
    ELSE LET url == watches[k]
             first == url \notin DOMAIN h \/ "last_content_check" \notin DOMAIN h[url]
             hit == first \/ url \in changed
             rest == LegacyContentLoop(IF hit THEN LegacyContentChecked(h, url) ELSE h,
                                       watches, changed, k + 1)
         IN  [changes |-> (IF hit
                           THEN <<[url |-> url,
                                   changes |-> [x \in {"content_change"} |->
                                                  "changedetection.io"]]>>
                           ELSE <<>>) \o rest.changes,
              history |-> rest.history]

\* the loop over all_changes of run_monitoring_cycle: log_change_to_sheets
\* for each change in turn, which returns True or False
LegacyLogChanges(changes, outcomes) ==
    [calls |-> changes,
     sheets_logged |-> Cardinality({k \in 1..Len(changes) : outcomes[k]}),
     sheets_failed |-> Cardinality({k \in 1..Len(changes) : ~outcomes[k]})]

\* AISafetyMonitor.run_monitoring_cycle: the content check (nothing when
\* changedetection.io is not available), the metadata check, the sheets
\* logging and the JSON report
RunMonitoringCycle ==
    /\ svc = IdleCycle
    /\ \E available \in BOOLEAN, changed \in SUBSET WatchedUrls,
          watches \in SeqsOf(WatchedUrls) :
          LET checked == IF available
                         THEN LegacyContentLoop(history, watches, changed, 1)
                         ELSE [changes |-> <<>>, history |-> history]
              due == GetDueUrls(sched.schedules, sched.urls, now)
          IN  \E metas \in [1..Len(due) -> LegacyFetches] :
                 LET metadata_changes == LegacyLoop(checked.history, due, metas, 1)
                     all_changes == checked.changes \o metadata_changes
                 IN  \E outcomes \in [1..Len(all_changes) -> BOOLEAN] :
                        LET logged == LegacyLogChanges(all_changes, outcomes) IN
                        /\ out' = [op |-> "run_monitoring_cycle",
                                   content |-> checked.changes,
                                   metadata |-> metadata_changes,
                                   sheets |-> logged.calls,
                                   logged |-> logged.sheets_logged,
                                   failed |-> logged.sheets_failed,
                                   reports |-> <<all_changes>>,
                                   returned |-> all_changes]
                        /\ history' = LegacyHistoryAfter(checked.history, due, metas)
                        /\ sched' = LegacyScheduleAfter(sched, checked.history, due, now)
    /\ UNCHANGED <<order, calls, last, tracked, settings, cur, prev, nurl, nout,
                   fileVars, now, svc, hnd>>

InitReport == InitService \/ InitLegacyCycle

NextReport ==
    \/ (CycleReported /\ TickIdle)
    \/ (CycleReported /\ svc.cycles < MaxReports /\ ContentCheck)
    \/ StartMetadataCheck
    \/ Fetch
    \/ FetchRaises
    \/ CycleDetect
    \/ EndSave
    \/ ReportCycle
    \/ (svc = IdleCycle /\ LegacyTick)
    \/ RunMonitoringCycle

SpecReport == InitReport /\ [][NextReport]_vars

(***************************************************************************)
(* SpecNorm: _normalize_url and _generate_url_variants on the URL domain.  *)
(***************************************************************************)
InitNorm ==
    /\ IdleFile
    /\ IdleService
    /\ history = EmptyDict /\ order = <<>> /\ calls = 0 /\ last = NoCall /\ tracked = {}
    /\ settings = DefaultSettings
    /\ cur = None /\ prev = None /\ out = [op |-> "none"]
    /\ nurl \in AllUrls
    /\ nout = [op |-> "none"]

ApplyNormalize ==
    /\ nout' = [op |-> "normalize",
                key |-> NormalizeUrl(nurl),
                again |-> NormalizeUrl(NormalizeUrl(nurl))]
    /\ UNCHANGED <<history, order, calls, last, tracked, settings, cur, prev, out, nurl, fileVars, svcVars>>

ApplyVariants ==
    /\ nout' = [op |-> "variants", keys |-> GenerateUrlVariants(nurl)]
    /\ UNCHANGED <<history, order, calls, last, tracked, settings, cur, prev, out, nurl, fileVars, svcVars>>

NextNorm == ApplyNormalize \/ ApplyVariants

SpecNorm == InitNorm /\ [][NextNorm]_vars

(***************************************************************************)
(* Properties.                                                             *)
(***************************************************************************)
ChangeTypes(changes) == {changes[i].change_type : i \in 1..Len(changes)}
Indices(changes, type) == {i \in 1..Len(changes) : changes[i].change_type = type}
AlertIndices(alerts, type) == {i \in 1..Len(alerts) : alerts[i].alert_type = type}

\* every value _get_previous_metadata may return for url in the current store
Resolved(url) == GetPreviousMetadata(history, order, url)

\* C1: a detect_metadata_changes call that repeats the previous call (same
\* URL, same metadata, nothing in between) returns an empty change list.
C1_Idempotent == last.repeat => last.changes = <<>>

\* C2: a call for a URL that resolved to no snapshot returns exactly the
\* first_detection record (low, direct_metadata), and afterwards the URL
\* resolves to a snapshot.
C2_FirstSight ==
    (last.called /\ last.previous = None) =>
        /\ last.changes = <<FirstDetection>>
        /\ None \notin Resolved(last.url)

\* C3: once a call has stored a snapshot for a normalized identity, no later
\* call for a URL of that identity returns a first_detection record.
C3_FirstDetectionOnce ==
    (last.called /\ last.seen_before) => "first_detection" \notin ChangeTypes(last.changes)

\* C4: after a call the URL resolves to the snapshot written from the
\* metadata of that call, and to nothing else.
C4_SnapshotIsLatest ==
    last.called => Resolved(last.url) = {Some(SerializeMetadata(last.meta))}

\* C5: a call for a URL that already resolved to a snapshot leaves the
\* number of stored snapshots unchanged.
C5_OverwriteNotAppend ==
    (last.called /\ last.previous # None) =>
        Cardinality(DOMAIN history) = last.size_before

DiffersOnlyInQuery(a, b) ==
    a # b /\ [a EXCEPT !.query = ""] = [b EXCEPT !.query = ""]

\* C6: a call never resolves the snapshot of a URL that differs from the
\* called URL only in its query string, and the key it writes keeps the
\* query string of the URL it is derived from.
C6_QueryKeepsIdentity ==
    /\ (last.called /\ last.previous # None) =>
            ~DiffersOnlyInQuery(last.previous[1]["url"], last.url)
    /\ last.called =>
            SaveKey(last.meta).query =
                (IF Truthy(last.meta.final_url) THEN last.meta.final_url[1]
                 ELSE last.meta.url).query

(***************************************************************************)
(* Relations between URL strings used by the normalization properties.     *)
(***************************************************************************)
SameBut(a, b, field) == [a EXCEPT ![field] = b[field]] = b

\* a and b differ at most in the letter case of scheme and host
CaseOnly(a, b) ==
    /\ Lower(a.scheme) = Lower(b.scheme)
    /\ LowerSeq(a.netloc) = LowerSeq(b.netloc)
    /\ a.path = b.path /\ a.query = b.query /\ a.fragment = b.fragment

DefaultPort(scheme) ==
    CASE Lower(scheme) = "http" -> <<":", "80">>
      [] Lower(scheme) = "https" -> <<":", "443">>
      [] OTHER -> <<>>

\* b is a with the default port of its scheme written out
PortOnly(a, b) ==
    /\ LastColon(a.netloc) = 0
    /\ DefaultPort(a.scheme) # <<>>
    /\ b = [a EXCEPT !.netloc = a.netloc \o DefaultPort(a.scheme)]

\* b is a with one trailing slash added to a non-root path without one
SlashOnly(a, b) ==
    /\ a.path # <<>>
    /\ a.path[Len(a.path)] # "/"
    /\ b = [a EXCEPT !.path = Append(a.path, "/")]

\* a and b differ at most in the fragment
FragmentOnly(a, b) == SameBut(a, b, "fragment")

SameIdentity(a, b) ==
    \/ CaseOnly(a, b)
    \/ PortOnly(a, b) \/ PortOnly(b, a)
    \/ SlashOnly(a, b) \/ SlashOnly(b, a)
    \/ FragmentOnly(a, b)

ExampleUrls ==
    {Url("HTTP", <<"Example.com", ":", "80">>, <<"/", "path", "/">>, "", ""),
     Url("http", <<"example.com">>, <<"/", "path">>, "", ""),
     Url("http", <<"example.com">>, <<"/", "path", "/">>, "", "")}

\* the path ends in two or more slashes
EndsInSlashes(path) ==
    Len(path) >= 2 /\ path[Len(path)] = "/" /\ path[Len(path) - 1] = "/"

C7_Equivalences ==
    nout.op = "normalize" =>
        /\ \A v \in AllUrls : SameIdentity(nurl, v) => NormalizeUrl(v) = nout.key
        /\ nurl \in ExampleUrls => nout.key = UrlPlain

DiffersOnlyByScheme(a, k) ==
    a.scheme # k.scheme /\ SameBut(a, k, "scheme")

DiffersOnlyByWww(a, k) ==
    \/ k = [a EXCEPT !.netloc = <<"www.">> \o a.netloc]
    \/ a = [k EXCEPT !.netloc = <<"www.">> \o k.netloc]

\* the URLs looked up against the stored keys
ProbeUrls ==
    {UrlPlain, UrlHttps, UrlQuery, UrlOther,
     Url("https", <<"example.com", ":", "443">>, <<"/", "path">>, "", ""),
     Url("http", <<"www.", "example.com">>, <<"/", "path">>, "", ""),
     Url("http", <<"WWW.", "example.com">>, <<"/", "path">>, "", ""),
     Url("HTTP", <<"Example.com", ":", "80">>, <<"/", "path", "/">>, "", "")}

\* u is one of the representations of the snapshot stored under k
Represents(u, k) ==
    LET n == NormalizeUrl(u)
        final == Get(history[k], "final_url", None)
        canonical == IF "html_metadata" \in DOMAIN history[k]
                     THEN Get(history[k]["html_metadata"], "canonical_url", None)
                     ELSE None
    IN  \/ DiffersOnlyByScheme(n, k)
        \/ DiffersOnlyByWww(n, k)
        \/ Truthy(final) /\ NormalizeUrl(final[1]) = n
        \/ Truthy(canonical) /\ NormalizeUrl(canonical[1]) = n

\* C8: a snapshot stored under key k is what the lookup returns for every
\* URL whose normalized form differs from k only by the scheme or only by a
\* leading www., and for every URL that normalizes to the snapshot's
\* final_url or canonical_url.
C8_IdentityAcrossRepresentations ==
    \A k \in DOMAIN history : \A u \in ProbeUrls :
        Represents(u, k) => Resolved(u) = {Some(history[k])}

SizeDelta == Abs(cur.content_length - Get(prev, "content_length", 0))

\* C9: _detect_http_changes yields a content_size_change record exactly when
\* the content-length delta exceeds the configured threshold, never more
\* than one, and with severity medium.
C9_SizeThreshold ==
    out.op = "http" =>
        LET recs == Indices(out.result, "content_size_change") IN
        /\ (recs # {}) <=> (SizeDelta > settings.content_size_threshold)
        /\ Cardinality(recs) <= 1
        /\ \A i \in recs : out.result[i].severity = "medium"

\* a delta of threshold + 1 has produced one medium content_size_change
C9_Witness ==
    /\ out.op = "http"
    /\ SizeDelta = settings.content_size_threshold + 1
    /\ Cardinality(Indices(out.result, "content_size_change")) = 1

WordCount(content) == Get(content, "word_count", 0)

BothHtml == cur.html_metadata # None /\ "html_metadata" \in DOMAIN prev

WordDelta ==
    Abs(WordCount(cur.html_metadata[1].content_analysis)
        - WordCount(prev["html_metadata"]["content_analysis"]))

SameVersionSets ==
    Range(cur.html_metadata[1].content_analysis["version_indicators"])
        = Range(prev["html_metadata"]["content_analysis"]["version_indicators"])

LastModifiedChanged ==
    GetOpt(LowerKeys(cur.headers), "last-modified")
        # GetOpt(LowerKeys(prev["headers"]), "last-modified")

\* C10: detect_stealth_updates never returns both alert types, and for a
\* word-count delta above 100 with equal version-indicator sets it returns
\* exactly one STEALTH_CONTENT_CHANGE and no STEALTH_LAST_MODIFIED_UPDATE.
C10_StealthExclusive ==
    out.op = "stealth" =>
        LET content == AlertIndices(out.result, "STEALTH_CONTENT_CHANGE")
            modified == AlertIndices(out.result, "STEALTH_LAST_MODIFIED_UPDATE")
        IN  /\ content = {} \/ modified = {}
            /\ (BothHtml /\ WordDelta > 100 /\ SameVersionSets) =>
                    (Cardinality(content) = 1 /\ modified = {})

\* a large edit without a version bump, Last-Modified changed as well
C10_Witness ==
    /\ out.op = "stealth"
    /\ BothHtml /\ WordDelta > 100 /\ SameVersionSets /\ LastModifiedChanged
    /\ Len(out.result) = 1
    /\ out.result[1].alert_type = "STEALTH_CONTENT_CHANGE"

\* C11: in every list detect_metadata_changes returns, a version_change record
\* has policy_alert true, a title_change record has policy_alert false, and
\* policy_alert is true exactly on the records whose source is policy_analysis.
C11_PolicyAlertBySource ==
    out.op = "detect" =>
        \A i \in 1..Len(out.result) :
            /\ out.result[i].change_type = "version_change" => out.result[i].policy_alert
            /\ out.result[i].change_type = "title_change" => ~out.result[i].policy_alert
            /\ out.result[i].policy_alert <=> out.result[i].source = "policy_analysis"

\* a returned list holding a title_change and a version_change
C11_Witness ==
    /\ out.op = "detect"
    /\ {"title_change", "version_change"} \subseteq ChangeTypes(out.result)

ScenarioPrevious == SerializeMetadata(E2EMeta("Usage Policy", 500, <<"v1.0">>))
ScenarioCurrent == E2EMeta("Usage Policy v2", 520, <<"v1.0">>)

ScenarioDetected ==
    /\ last.called /\ last.url = UrlA /\ last.meta = ScenarioCurrent
    /\ last.previous = Some(ScenarioPrevious)

ScenarioStealth == out.op = "stealth" /\ cur = ScenarioCurrent /\ prev = ScenarioPrevious

\* C12: with the stored snapshot of https://a.com titled 'Usage Policy' with
\* 500 words and versions [v1.0], a fetch that differs only in the title
\* 'Usage Policy v2' and 520 words makes detect_metadata_changes return
\* exactly one record, a title_change of severity high (no word_count_change),
\* and detect_stealth_updates return no alert.
C12_EndToEnd ==
    /\ ScenarioDetected =>
          /\ Len(last.changes) = 1
          /\ last.changes[1].change_type = "title_change"
          /\ last.changes[1].severity = "high"
          /\ "word_count_change" \notin ChangeTypes(last.changes)
    /\ ScenarioStealth => out.result = <<>>

\* the scenario ran: stealth check against the stored snapshot, then detect
C12_Witness == ScenarioDetected /\ ScenarioStealth

\* the file holds a store object: a JSON object with a metadata_history member
IsStoreFile(f) ==
    /\ f.exists
    /\ JsonLoad(f).raised = "none"
    /\ JsonLoad(f).value.type = "dict"
    /\ "metadata_history" \in Range(JsonLoad(f).value.keys)

\* C13: whatever the history file holds (missing, not valid JSON, or valid
\* JSON that is not a store object), constructing ChangeDetector does not
\* raise, the store in memory behaves as the empty store, and the
\* detect_metadata_changes and save_history calls that follow do not raise.
C13_CorruptFileLosesHistoryOnly ==
    /\ res.raised = "none"
    /\ (res.op = "init" /\ ~IsStoreFile(file)) =>
          top.type = "dict" /\ history = EmptyDict /\ top.watch = {}

\* the file holds a JSON object without snapshots and without other members
HoldsEmptyStore(f) ==
    /\ f.exists
    /\ JsonLoad(f).raised = "none"
    /\ JsonLoad(f).value.type = "dict"
    /\ "<watch>" \notin Range(JsonLoad(f).value.keys)
    /\ "<entries>" \notin Range(f.text)

HoldsSnapshot(f) ==
    /\ IsStoreFile(f)
    /\ "<entries>" \in Range(f.text)

\* C14: is_first_run returns true when the file is absent, empty or holds
\* only an empty store (the store save_history writes before any detect call
\* included), and false once a snapshot has been saved.
C14_FirstRun ==
    res.op = "is_first_run" =>
        /\ (~file.exists \/ Strip(file.text) = <<>> \/ HoldsEmptyStore(file)) => res.value
        /\ HoldsSnapshot(file) => ~res.value

\* url is due at time t under the schedules
IsDue(schedules, url, t) ==
    schedules[url].next_check = None \/ schedules[url].next_check[1] <= t

\* C20: right after initialization every configured URL is due; get_due_urls
\* returns exactly the URLs whose next_check is unset or not later than the
\* current time; update_schedule(u) sets last_checked and moves next_check of
\* u to now + check interval, strictly later than now and than a next_check
\* that had come, so u is not due again until the interval has elapsed; every
\* other URL's schedule is unchanged.
C20_Scheduling ==
    /\ (\A u \in DOMAIN sched.schedules : sched.schedules[u].last_checked = None) =>
          GetDueUrls(sched.schedules, sched.urls, now) = sched.urls
    /\ out.op = "due" =>
          Range(out.result) = {u \in DOMAIN out.schedules : IsDue(out.schedules, u, out.t)}
    /\ (out.op = "update" /\ out.url \in DOMAIN sched.schedules) =>
          /\ sched.schedules[out.url].last_checked = Some(out.t)
          /\ sched.schedules[out.url].next_check = Some(out.t + sched.interval)
          /\ sched.schedules[out.url].next_check[1] > out.t
          /\ IsDue(out.before, out.url, out.t) =>
                \/ out.before[out.url].next_check = None
                \/ sched.schedules[out.url].next_check[1] > out.before[out.url].next_check[1]
          /\ \A u \in DOMAIN sched.schedules \ {out.url} :
                sched.schedules[u] = out.before[u]
    /\ (out.op = "update" /\ out.url \notin DOMAIN sched.schedules) =>
          sched.schedules = out.before
    /\ \A u \in DOMAIN sched.schedules :
          sched.schedules[u].last_checked # None =>
              (u \in Range(GetDueUrls(sched.schedules, sched.urls, now))
                 <=> now >= sched.schedules[u].last_checked[1] + sched.interval)

\* one URL was updated and is not due while the other still is
C20_Witness ==
    /\ out.op = "update" /\ out.url = UrlA
    /\ GetDueUrls(sched.schedules, sched.urls, now) = <<UrlB>>

\* C19: the legacy detect_metadata_changes(old_meta, new_meta) called with no
\* previous metadata (old_meta None) does not raise and returns a mapping
\* with the key new_url; called with two equal mappings it returns the empty
\* mapping.
C19_LegacyNewUrl ==
    out.op = "legacy" =>
        /\ prev = None =>
              /\ out.result.raised = "none"
              /\ "new_url" \in DOMAIN out.result.value
        /\ prev = Some(cur) =>
              /\ out.result.raised = "none"
              /\ out.result.value = EmptyDict

\* the metadata check is inside its loop over the due URLs
InLoop == svc.pc \in {"fetch", "detect"} \/ (svc.pc = "saving" /\ svc.after = "idle")

\* the metadata check has returned
CheckReturned == svc.pc = "idle" /\ svc.cycles > 0

\* C15: detect_metadata_changes never writes the history file; a metadata
\* check over a non-empty due list calls save_history exactly once, after the
\* last due URL has been processed (also when processing of some URL raised),
\* never once per URL.
C15_SaveOncePerBatch ==
    /\ [](/\ InLoop => svc.saves = 0
          /\ (CheckReturned /\ svc.ndue > 0) => svc.saves = 1)
    /\ [][svc.pc = "detect" => file' = file]_vars

\* a check over two due URLs returned after one of them raised
C15_Witness ==
    /\ CheckReturned
    /\ svc.ndue = 2
    /\ svc.raised
    /\ svc.saves = 1
    /\ last.called

\* C16: in a MonitoringService run the store is written only through
\* detect_metadata_changes and its top-level keys are only metadata_history
\* and policy_alerts, in memory and in the saved file.
C16_StoreOwnedByDetect ==
    /\ top.watch = {}
    /\ Range(top.keys) \subseteq {"metadata_history", "policy_alerts"}
    /\ file.watch = {}

\* the latest detect_metadata_changes call got the metadata of a failed fetch
FailedFetchDetected == last.called /\ last.meta.status_code = None

\* C17: metadata produced by a failed fetch is never passed to
\* detect_metadata_changes and never replaces a stored snapshot, so a title
\* that differs between two successful fetches of a URL is reported even
\* when a failed fetch happened in between.
C17_FailedFetchSkipsDetect ==
    /\ ~FailedFetchDetected
    /\ (last.called /\ last.meta.status_code # None
        /\ svc.goodbefore \notin {"", Title(last.meta)}) =>
          "title_change" \in ChangeTypes(last.changes)

BySource(changes, sources) == SelectSeq(changes, LAMBDA c : c.source \in sources)

HttpSources == {"http_metadata"}
HtmlSources == {"html_metadata", "content_analysis"}
PolicySources == {"policy_analysis"}

\* the current metadata and the resolved previous snapshot both carry
\* html_metadata
ResolvedBothHtml ==
    prev # None /\ cur.html_metadata # None /\ "html_metadata" \in DOMAIN prev[1]

\* C22: for a URL whose previous snapshot was resolved, detect_metadata_changes
\* always applies the HTTP-level rules, applies the HTML-level and policy rules
\* exactly when the current metadata and the previous snapshot both carry
\* html_metadata, and returns HTTP records, then HTML records, then policy
\* records.
C22_RuleGroups ==
    (out.op = "detect" /\ prev # None) =>
        LET http == BySource(out.result, HttpSources)
            html == BySource(out.result, HtmlSources)
            policy == BySource(out.result, PolicySources)
        IN  /\ http = DetectHttpChanges(cur, prev[1], settings)
            /\ IF ResolvedBothHtml
               THEN /\ html = DetectHtmlMetadataChanges(cur.html_metadata[1],
                                                        prev[1]["html_metadata"], settings)
                    /\ policy = DetectPolicyChanges(cur.html_metadata[1],
                                                    prev[1]["html_metadata"], settings)
               ELSE html = <<>> /\ policy = <<>>
            /\ out.result = http \o html \o policy

\* a returned list with records of the three groups
C22_Witness ==
    /\ out.op = "detect"
    /\ ResolvedBothHtml
    /\ {"content_size_change", "header_change", "title_change", "version_change",
        "policy_keyword_change"} \subseteq ChangeTypes(out.result)

\* C23: detect_stealth_updates returns a STEALTH_CONTENT_CHANGE alert, of
\* severity HIGH, exactly when both sides have html_metadata, the word-count
\* delta exceeds 100 and the version-indicator sets are equal; it returns a
\* STEALTH_LAST_MODIFIED_UPDATE alert, of severity MEDIUM, exactly when both
\* sides have html_metadata, the last-modified value differs (keys compared
\* without case) and the word-count delta is below 50; without html_metadata
\* on either side it returns the empty list.
C23_StealthRules ==
    out.op = "stealth" =>
        LET content == AlertIndices(out.result, "STEALTH_CONTENT_CHANGE")
            modified == AlertIndices(out.result, "STEALTH_LAST_MODIFIED_UPDATE")
        IN  /\ (content # {}) <=> (BothHtml /\ WordDelta > 100 /\ SameVersionSets)
            /\ \A i \in content : out.result[i].severity = "HIGH"
            /\ (modified # {}) <=> (BothHtml /\ LastModifiedChanged /\ WordDelta < 50)
            /\ \A i \in modified : out.result[i].severity = "MEDIUM"
            /\ ~BothHtml => out.result = <<>>
            /\ Cardinality(content) + Cardinality(modified) = Len(out.result)

\* Last-Modified changed over an edit of 49 words: one MEDIUM alert
C23_Witness ==
    /\ out.op = "stealth"
    /\ BothHtml /\ LastModifiedChanged /\ WordDelta = 49
    /\ Len(out.result) = 1
    /\ out.result[1].alert_type = "STEALTH_LAST_MODIFIED_UPDATE"
    /\ out.result[1].severity = "MEDIUM"

\* the positions, in insertion order, of the entries whose final_url or
\* canonical_url matches the looked-up URL
ScanMatches ==
    {i \in 1..Len(order) : FallbackMatch(history[order[i]], nurl, NormalizeUrl(nurl))}

VariantHits == GenerateUrlVariants(nurl) \cap DOMAIN history

\* C24: _get_previous_metadata returns the entry under the raw key when there
\* is one, else the entry under the normalized key, else the entry under a
\* generated variant, else the first entry in insertion order whose final_url
\* or canonical_url matches, and None when no step matches; an entry stored
\* under the looked-up URL wins over another entry whose final_url or
\* canonical_url matches it.
C24_LookupOrder ==
    out.op = "lookup" =>
        LET norm_url == NormalizeUrl(nurl)
            raw == nurl \in DOMAIN history
            normalized == norm_url \in DOMAIN history
        IN  /\ raw => out.result = Some(history[nurl])
            /\ (~raw /\ normalized) => out.result = Some(history[norm_url])
            /\ (~raw /\ ~normalized /\ VariantHits # {}) =>
                    \E v \in VariantHits : out.result = Some(history[v])
            /\ (~raw /\ ~normalized /\ VariantHits = {} /\ ScanMatches # {}) =>
                    \E i \in ScanMatches :
                        /\ out.result = Some(history[order[i]])
                        /\ \A j \in ScanMatches : i <= j
            /\ (out.result = None) <=>
                    (~raw /\ ~normalized /\ VariantHits = {} /\ ScanMatches = {})

\* the looked-up URL is a stored key, an entry stored earlier under another
\* key names it as canonical_url, and the entry under the key came back
C24_Witness ==
    /\ out.op = "lookup"
    /\ nurl \in DOMAIN history
    /\ \E i \in ScanMatches : /\ order[i] # nurl
                             /\ history[order[i]] # history[nurl]
                             /\ \A j \in 1..Len(order) : order[j] = nurl => i < j
    /\ out.result = Some(history[nurl])

\* the field is absent from the previous snapshot
AbsentTop(field) == field \notin DOMAIN prev[1]
AbsentHtml(field) == field \notin DOMAIN prev[1]["html_metadata"]
AbsentContent(field) ==
    \/ AbsentHtml("content_analysis")
    \/ field \notin DOMAIN prev[1]["html_metadata"]["content_analysis"]

\* C25: when a compared field is absent from the previous snapshot, the
\* differencer compares as if it held the zero value of its type: against a
\* current value that is empty (no status, 0, '', {}, [], false) it yields no
\* change record for that field.
C25_AbsentIsZero ==
    (out.op = "detect" /\ prev # None) =>
        LET types == ChangeTypes(out.result)
            html == cur.html_metadata[1]
        IN  /\ (AbsentTop("status_code") /\ cur.status_code = None) =>
                    "status_change" \notin types
            /\ (AbsentTop("content_length") /\ cur.content_length = 0) =>
                    "content_size_change" \notin types
            /\ (AbsentTop("headers") /\ cur.headers = EmptyDict) =>
                    "header_change" \notin types
            /\ (AbsentHtml("title") /\ html.title \in {None, Some("")}) =>
                    "title_change" \notin types
            /\ (AbsentHtml("meta_description") /\ html.meta_description \in {None, Some("")}) =>
                    "meta_description_change" \notin types
            /\ (AbsentHtml("og_metadata") /\ html.og_metadata = EmptyDict) =>
                    "opengraph_change" \notin types
            /\ (AbsentHtml("other_metadata") /\ html.other_metadata = EmptyDict) =>
                    "version_change" \notin types
            /\ (AbsentContent("word_count") /\ html.content_analysis = ZeroContent) =>
                    {"word_count_change", "heading_structure_change", "policy_keyword_change",
                     "version_indicator_change", "legal_language_change"} \cap types = {}

\* a differencer method or detect_stealth_updates ran in this step
DifferencerStep == <<cur, prev, out>>' # <<cur, prev, out>>

HeaderValue(headers, name) ==
    IF \E k \in DOMAIN headers : HeaderLower(k) = name
    THEN Some(headers[CHOOSE k \in DOMAIN headers : HeaderLower(k) = name])
    ELSE None

HeaderRecords(changes, name) ==
    {i \in Indices(changes, "header_change") : changes[i].details.header = name}

\* C27: for each of last-modified, etag, content-type, content-length and
\* cache-control there is a header_change record exactly when the value of
\* that header differs between current and previous with the keys compared
\* without case, one record per header, of severity low for last-modified
\* and medium for the others; a difference in key case only, or in a header
\* outside the five, gives no record.
C27_HeaderChanges ==
    out.op = "http" =>
        /\ \A name \in Range(ImportantHeaders) :
              LET recs == HeaderRecords(out.result, name) IN
              /\ (recs # {}) <=>
                    (HeaderValue(cur.headers, name) # HeaderValue(prev["headers"], name))
              /\ Cardinality(recs) <= 1
              /\ \A i \in recs :
                    out.result[i].severity = IF name = "last-modified" THEN "low" ELSE "medium"
        /\ \A i \in Indices(out.result, "header_change") :
              out.result[i].details.header \in Range(ImportantHeaders)

\* ETag written in two cases with one value, Server changed, Last-Modified
\* changed: the one record is the low last-modified change
C27_Witness ==
    /\ out.op = "http"
    /\ "ETag" \in DOMAIN cur.headers /\ "etag" \in DOMAIN prev["headers"]
    /\ HeaderValue(cur.headers, "etag") = HeaderValue(prev["headers"], "etag")
    /\ HeaderValue(cur.headers, "server") # HeaderValue(prev["headers"], "server")
    /\ Indices(out.result, "header_change") = {1}
    /\ Len(out.result) = 1
    /\ out.result[1].details.header = "last-modified"
    /\ out.result[1].severity = "low"

\* the URLs get_due_urls would return now
DueNow == Range(GetDueUrls(sched.schedules, sched.urls, now))

\* C28: _check_metadata_changes processes the URLs of the due list one at a
\* time in list order, each exactly once, and goes on to the remaining URLs
\* after one raised; the schedule of a URL that raised is not advanced, so it
\* is due in the next cycle, while a URL that was processed is not due until
\* the check interval has elapsed.
C28_DueListInOrder ==
    /\ Len(svc.log) <= Len(svc.due)
    /\ \A k \in 1..Len(svc.log) : svc.log[k].url = svc.due[k]
    /\ svc.pc \in {"fetch", "detect"} => Len(svc.log) = svc.i - 1
    /\ ((svc.pc = "saving" /\ svc.after = "idle") \/ CheckReturned) =>
          Len(svc.log) = Len(svc.due)
    /\ \A k \in 1..Len(svc.log) :
          LET url == svc.log[k].url IN
          IF svc.log[k].ok
          THEN /\ sched.schedules[url].last_checked # None
               /\ url \in DueNow <=>
                     now >= sched.schedules[url].last_checked[1] + sched.interval
               /\ InLoop => url \notin DueNow
          ELSE url \in DueNow

\* a check over two due URLs returned: the first raised and is still due, the
\* second was processed and is not
C28_Witness ==
    /\ CheckReturned
    /\ svc.log = <<[url |-> UrlA, ok |-> FALSE], [url |-> UrlB, ok |-> TRUE]>>
    /\ DueNow = {UrlA}

\* the environment variable holds none of the words _detect_first_run knows
Unset(value) == LowerWord(value) \notin FalseWords \cup TrueWords

\* C29: _detect_first_run follows its priority (MONITOR_FIRST_RUN, FIRST_RUN,
\* datastore watches, previous reports, change detector history); with
\* neither variable set and no datastore watches or reports it returns false
\* when the history file save_history wrote holds a snapshot, and true only
\* when no monitoring data exists.
C29_FirstRunPriority ==
    out.op = "first_run" =>
        LET data == \/ out.datastore = "watches"
                    \/ out.reports
                    \/ HoldsSnapshot(out.file)
        IN  /\ LowerWord(out.monitor_first_run) \in FalseWords => ~out.value
            /\ LowerWord(out.monitor_first_run) \in TrueWords => out.value
            /\ (Unset(out.monitor_first_run) /\ LowerWord(out.first_run_env) \in FalseWords)
                    => ~out.value
            /\ (Unset(out.monitor_first_run) /\ LowerWord(out.first_run_env) \in TrueWords)
                    => out.value
            /\ (Unset(out.monitor_first_run) /\ Unset(out.first_run_env)) =>
                    (out.value <=> ~data)

\* C30: the legacy check_metadata_changes stores the current metadata and
\* advances the schedule for every due URL it checked, so a check that finds
\* the same metadata as the check before reports nothing; with no due URLs it
\* returns an empty list and leaves the history unchanged.
C30_LegacyCheckUpdates ==
    out.op = "legacy_check" =>
        /\ out.due = <<>> => (out.result = <<>> /\ history = out.before)
        /\ \A k \in 1..Len(out.due) :
              /\ LegacyPrevious(history, out.due[k]) = Some(out.metas[k])
              /\ ~IsDue(sched.schedules, out.due[k], now)
        /\ out.repeat => out.result = <<>>


(***************************************************************************)
(* C21: in one monitoring cycle the sheets reporter is called once for     *)
(* each detected change, the content changes first and then the metadata   *)
(* changes, and not at all when nothing was detected; the JSON report is   *)
(* generated once, with all detected changes; the cycle returns all        *)
(* detected changes (run_cycle: their number); and the logged and failed   *)
(* counters sum to the number of detected changes.                         *)
(***************************************************************************)
CycleDone == out.op \in {"run_cycle", "run_monitoring_cycle"}

Detected == out.content \o out.metadata

====
